---- MODULE Spec2Model ----
(***************************************************************************)
(* A model of the 711cc C compiler: the x86-64 emitter's evaluation-stack  *)
(* discipline (codegen.c), the preprocessor's macro expansion and          *)
(* conditional inclusion (preprocess.c), the parser's block scopes, global *)
(* initializer serialisation and struct layout (parse.c), and the data     *)
(* emitter (codegen.c).                                                    *)
(*                                                                         *)
(* Each subsystem has its own variables, initial predicate, next-state     *)
(* relation and specification; the variables of the other subsystems stay  *)
(* at their idle values.                                                   *)
(***************************************************************************)
EXTENDS Integers, Sequences, FiniteSets, TLC

VARIABLES
    \* ---- codegen.c: the emitter's static state and its call stack
    top,        \* static int top: the evaluation-stack counter
    brknum,     \* static int brknum: current break target (0 = none)
    contnum,    \* static int contnum: current continue target (0 = none)
    counter,    \* count()'s static int i
    frames,     \* the C call stack of gen_stmt / gen_expr / gen_addr activations
    cgst,       \* "idle" | "run" | "error" | "assert_failed"
    fnleft,     \* functions of the program still to be emitted by emit_text
    astclass,   \* input: the class of AST being compiled ("broad" | "chain")
    \* ---- parse.c: block scopes
    var_scope,   \* static VarScope *var_scope: <<[name, depth]>>, newest first
    tag_scope,   \* static TagScope *tag_scope: <<[name, depth]>>, newest first
    scope_depth, \* static int scope_depth
    blocks,      \* history: the two lists as they were at each open enter_scope()
    sclast,      \* history: the last scope operation and, for leave_scope(),
                 \* the lists at the matching enter_scope()
    \* ---- preprocess.c
    ppin,        \* Token *tok of preprocess2: the tokens still to be read
    ppout,       \* the output list preprocess2 builds behind cur
    macros,      \* static Macro *macros, newest first
    cond_incl,   \* static CondIncl *cond_incl, innermost first
    ppst,        \* "idle" | "run" | "done" | "error" | "hang" | "unmodelled"
    pperr,       \* the message of the fatal error
    ppsrc,       \* input: the token list of the source file
    pplast,      \* history: the last iteration of preprocess2's loop
    pphist,      \* history: the #define and #undef directives executed
    \* ---- parse.c: declarations; codegen.c: emit_data
    mems,        \* Member list struct_members() has built so far
    tagty,       \* the Type struct_decl() / union_decl() returned
    declby,      \* "none" | "struct" | "union": which of the two laid it out
    gvar,        \* the global Var being defined: ty, init_data, rel
    ginit,       \* history: the Initializer tree gvar_initializer() parsed
    asmout,      \* the directives emit_data() printed for gvar
    dcst,        \* "idle" | "members" | "declared" | "defined" | "emitted"
                 \* | "error"
    \* ---- tokenize.c: read_int_literal
    lex,         \* read_int_literal's locals and the token it returns
    \* ---- parse.c: struct tags
    tg,          \* tag_scope with its Type objects, scope_depth, history
    \* ---- main.c: -E
    pe,          \* run: which run of the compiler (1, 2); text: what print_tokens printed
    \* ---- main.c: command line, preprocess.c: #include
    mn,          \* main()'s position, include_paths, the options read; the files that exist
    \* ---- type.c: align_to
    al,          \* align_to's argument n and align, its result and the result of a second call
    \* ---- parse.c: stmt; codegen.c: ND_SWITCH
    sw,          \* the statements stmt() parsed, the text emitted for them and its run
    \* ---- parse.c: assign, to_assign
    ca,          \* the expression assign() read, its lowered tree and the memory after its run
    \* ---- codegen.c: ND_FUNCALL, emit_text; main.c: frame offsets
    fun,         \* the call or function being emitted: its arguments, parameters
                 \* or locals and where the printed code puts them
    \* ---- type.c: get_common_type
    gct          \* get_common_type's two operand types and its result

cgvars == <<top, brknum, contnum, counter, frames, cgst, fnleft, astclass>>

\* the variables the emitter never touches
scvars == <<var_scope, tag_scope, scope_depth, blocks, sclast>>
ppvars == <<ppin, ppout, macros, cond_incl, ppst, pperr, ppsrc, pplast, pphist>>
dcvars == <<mems, tagty, declby, gvar, ginit, asmout, dcst>>
notcg == <<scvars, ppvars, dcvars, lex, tg, pe, mn, al, sw, ca, fun, gct>>
notsc == <<cgvars, ppvars, dcvars, lex, tg, pe, mn, al, sw, ca, fun, gct>>
notpp == <<cgvars, scvars, dcvars, lex, tg, pe, mn, al, sw, ca, fun, gct>>
notdc == <<cgvars, scvars, ppvars, lex, tg, pe, mn, al, sw, ca, fun, gct>>
notlex == <<cgvars, scvars, ppvars, dcvars, tg, pe, mn, al, sw, ca, fun, gct>>
nottg == <<cgvars, scvars, ppvars, dcvars, lex, pe, mn, al, sw, ca, fun, gct>>
notpe == <<cgvars, scvars, ppvars, dcvars, lex, tg, mn, al, sw, ca, fun, gct>>
notpppe == <<cgvars, scvars, dcvars, lex, tg, mn, al, sw, ca, fun, gct>>
notppmn == <<cgvars, scvars, dcvars, lex, tg, pe, al, sw, ca, fun, gct>>
notmn == <<cgvars, scvars, ppvars, dcvars, lex, tg, pe, al, sw, ca, fun, gct>>
notal == <<cgvars, scvars, ppvars, dcvars, lex, tg, pe, mn, sw, ca, fun, gct>>
notsw == <<cgvars, scvars, ppvars, dcvars, lex, tg, pe, mn, al, ca, fun, gct>>
notca == <<cgvars, scvars, ppvars, dcvars, lex, tg, pe, mn, al, sw, fun, gct>>
notfun == <<cgvars, scvars, ppvars, dcvars, lex, tg, pe, mn, al, sw, ca, gct>>
notgct == <<cgvars, scvars, ppvars, dcvars, lex, tg, pe, mn, al, sw, ca, fun>>

vars == <<cgvars, notcg>>

(***************************************************************************)
(*                     codegen.c : gen_stmt / gen_expr                     *)
(***************************************************************************)

\* Bounds of the explored programs.
MaxDepth == 4       \* nesting depth of a "broad" AST below a function body
MaxLabels == 2      \* count() calls of one compilation
MaxChain == 8       \* nesting depth of a "chain" AST below a function body
MaxBody  == 2       \* statements in a block or statement expression
MaxCases == 1       \* case labels of a switch
MaxFns   == 1       \* functions of the program

\* The register pool r[] of reg(), xreg() and freg() has six entries.
NREGS == 6

\* reg(idx), xreg(ty, idx), freg(idx): fatal "register out of range" unless
\* 0 <= idx < 6.  TRUE iff the call returns.
reg(idx) == idx >= 0 /\ idx < NREGS

\* Type kinds on which the emitter branches.
TypeKinds == {"TY_VOID", "TY_BOOL", "TY_CHAR", "TY_INT", "TY_LONG", "TY_FLOAT",
              "TY_DOUBLE", "TY_PTR", "TY_ARRAY", "TY_STRUCT", "TY_FUNC"}

\* The node kinds that fall through gen_expr's first switch to the
\* "Binary expressions" part.
BinaryKinds == {"ND_ADD", "ND_SUB", "ND_MUL", "ND_DIV", "ND_MOD", "ND_BITAND",
                "ND_BITOR", "ND_BITXOR", "ND_EQ", "ND_NE", "ND_LT", "ND_LE",
                "ND_SHL", "ND_SHR"}

\* Helpers return [ok, top]: ok is FALSE when a reg()/freg() call inside
\* the helper is fatal; top is the counter after the helper.
R(ok, t) == [ok |-> ok, top |-> t]

\* load(ty): arrays, structs and functions are not loaded; everything else
\* reads through reg(top - 1) into reg/xreg/freg(top - 1).
load(ty, t) ==
    IF ty \in {"TY_ARRAY", "TY_STRUCT", "TY_FUNC"} THEN R(TRUE, t)
    ELSE R(reg(t - 1), t)

\* store(ty): rd = reg(top - 1), rs = reg(top - 2) are taken first, then
\* one store is printed, then top--.
store(ty, t) == R(reg(t - 1) /\ reg(t - 2), t - 1)

\* A cmp_zero that reads reg(top - 1) but does not release it.
cmp_zero_keep(ty, t) == R(reg(t - 1), t)

\* cmp_zero(ty): every branch uses reg(--top) or freg(--top).
cmp_zero(ty, t) == R(reg(t - 1), t - 1)

\* A cast whose _Bool branch does not re-acquire the register cmp_zero released.
cast_bool_drop(from, to, t) ==
    IF to = "TY_VOID" THEN R(TRUE, t)
    ELSE IF ~reg(t - 1) THEN R(FALSE, t)
    ELSE IF to = "TY_BOOL" THEN R(TRUE, t - 1)
    ELSE R(TRUE, t)

\* cast(from, to)
cast(from, to, t) ==
    IF to = "TY_VOID" THEN R(TRUE, t)
    ELSE IF ~reg(t - 1) THEN R(FALSE, t)            \* r = reg(top-1), fr = freg(top-1)
    ELSE IF to = "TY_BOOL"
         THEN LET z == cmp_zero(from, t)
              IN  R(z.ok /\ reg(z.top), z.top + 1)  \* setne reg(top); top++
    ELSE R(TRUE, t)

\* builtin_va_start(node): prints five instructions, then top++ (no reg()).
builtin_va_start(t) == R(TRUE, t + 1)

\* One activation record.  kind = "?" : the node has not been looked at yet
\* (its kind is drawn when the activation starts running).
\*   fn     the C function: "gen_stmt", "gen_expr", "gen_addr"
\*   pc     where the activation resumes
\*   entry  value of top when the function was called (used by the claims)
\*   d      depth budget left for the node's children
\*   ty     a type kind of the node the code still needs (cast target, ...)
\*   bf     a boolean of the node the code still needs (bit-field, has else)
\*   n      a count the code still needs (statements left, flags)
\*   c, brk, cont   the C locals of the same names
Frame(fn, kind, d, t) ==
    [fn |-> fn, kind |-> kind, pc |-> "enter", entry |-> t, d |-> d,
     ty |-> "-", bf |-> FALSE, n |-> 0, c |-> 0, brk |-> 0, cont |-> 0]

F == frames[Len(frames)]
SetTop(f) == [frames EXCEPT ![Len(frames)] = f]
\* the running activation becomes f and calls child
Call(f, child) == Append(SetTop(f), child)
\* the running activation becomes f and will return
Ret(f) == SetTop([f EXCEPT !.pc = "ret"])

\* The explored programs: "broad" ASTs use every node kind up to MaxDepth;
\* "chain" ASTs are expression statements of nested binary operators over
\* numbers up to MaxChain (they exhaust the six registers).
ChainKinds == {"ND_BLOCK", "ND_EXPR_STMT", "binary", "ND_NUM"}
InAst(k) == astclass = "broad" \/ k \in ChainKinds
RootDepth == IF astclass = "chain" THEN MaxChain ELSE MaxDepth

Running(fn) == cgst = "run" /\ Len(frames) > 0 /\ F.fn = fn
\* the activation starts on a node of kind k: drawn now, or fixed by the caller
Enter(fn, k) ==
    /\ Running(fn) /\ F.pc = "enter"
    /\ F.kind = k \/ (F.kind = "?" /\ InAst(k))
At(fn, k, pc) == Running(fn) /\ F.kind = k /\ F.pc = pc

\* error(), error_tok(): the compiler exits.
Fatal == /\ cgst' = "error"
         /\ UNCHANGED <<top, brknum, contnum, counter, frames, fnleft, astclass, notcg>>

\* An emitter step that ends with top = t, call stack fs, count() at cnt
\* and break/continue targets b, c -- or is fatal.
EmitL(ok, t, fs, cnt, b, c) ==
    /\ cnt <= MaxLabels + 1        \* the program has at most MaxLabels labels
    /\ IF ok THEN /\ top' = t /\ frames' = fs /\ counter' = cnt
                  /\ brknum' = b /\ contnum' = c
                  /\ UNCHANGED <<cgst, fnleft, astclass, notcg>>
       ELSE Fatal
Emit(ok, t, fs) == EmitL(ok, t, fs, counter, brknum, contnum)

\* Calls of gen_expr / gen_stmt / gen_addr on a child node.
Expr(d, t) == Frame("gen_expr", "?", d, t)
Stmt(d, t) == Frame("gen_stmt", "?", d, t)
Addr(k, d, t) == Frame("gen_addr", k, d, t)

\* A function returns to its caller.
Return ==
    /\ cgst = "run" /\ Len(frames) > 0 /\ F.pc = "ret"
    /\ frames' = SubSeq(frames, 1, Len(frames) - 1)
    /\ UNCHANGED <<top, brknum, contnum, counter, cgst, fnleft, astclass, notcg>>

(* ------------------------------ gen_addr ------------------------------ *)

\* case ND_VAR: lea / mov into reg(top++), for locals and globals alike.
AddrVar ==
    /\ Enter("gen_addr", "ND_VAR")
    /\ Emit(reg(top), top + 1, Ret([F EXCEPT !.kind = "ND_VAR"]))

\* case ND_DEREF: gen_expr(node->lhs)
AddrDeref ==
    \/ /\ Enter("gen_addr", "ND_DEREF") /\ F.d > 0
       /\ Emit(TRUE, top, Call([F EXCEPT !.kind = "ND_DEREF", !.pc = "lhs"],
                               Expr(F.d - 1, top)))
    \/ /\ At("gen_addr", "ND_DEREF", "lhs")
       /\ Emit(TRUE, top, Ret(F))

\* case ND_COMMA: gen_expr(node->lhs); top--; gen_addr(node->rhs)
AddrComma ==
    \/ /\ Enter("gen_addr", "ND_COMMA") /\ F.d > 0
       /\ Emit(TRUE, top, Call([F EXCEPT !.kind = "ND_COMMA", !.pc = "lhs"],
                               Expr(F.d - 1, top)))
    \/ /\ At("gen_addr", "ND_COMMA", "lhs")
       /\ Emit(TRUE, top - 1, Call([F EXCEPT !.pc = "rhs"],
                                   Addr("?", F.d - 1, top - 1)))
    \/ /\ At("gen_addr", "ND_COMMA", "rhs")
       /\ Emit(TRUE, top, Ret(F))

\* case ND_MEMBER: gen_addr(node->lhs); add $offset, reg(top - 1)
AddrMember ==
    \/ /\ Enter("gen_addr", "ND_MEMBER") /\ F.d > 0
       /\ Emit(TRUE, top, Call([F EXCEPT !.kind = "ND_MEMBER", !.pc = "lhs"],
                               Addr("?", F.d - 1, top)))
    \/ /\ At("gen_addr", "ND_MEMBER", "lhs")
       /\ Emit(reg(top - 1), top, Ret(F))

\* any other node kind: error_tok(node->tok, "not an lvalue")
AddrNotLvalue ==
    /\ Enter("gen_addr", "?") /\ astclass = "broad"
    /\ Fatal

(* ------------------------------ gen_expr ------------------------------ *)

\* case ND_NUM: every branch materialises into reg(top++) or freg(top++).
GenNum ==
    /\ Enter("gen_expr", "ND_NUM")
    /\ Emit(reg(top), top + 1, Ret([F EXCEPT !.kind = "ND_NUM"]))

\* case ND_VAR: gen_addr(node); load(node->ty)
GenVar ==
    \/ /\ Enter("gen_expr", "ND_VAR")
       /\ Emit(TRUE, top, Call([F EXCEPT !.kind = "ND_VAR", !.pc = "load"],
                               Addr("ND_VAR", F.d, top)))
    \/ /\ At("gen_expr", "ND_VAR", "load")
       /\ \E ty \in TypeKinds :
            LET l == load(ty, top) IN Emit(l.ok, l.top, Ret(F))

\* case ND_MEMBER: gen_addr(node); load(node->ty); a bit-field is then
\* shifted left and right in reg(top - 1).
GenMember ==
    \/ /\ Enter("gen_expr", "ND_MEMBER") /\ F.d > 0
       /\ \E isbf \in BOOLEAN :
            Emit(TRUE, top,
                 Call([F EXCEPT !.kind = "ND_MEMBER", !.pc = "load", !.bf = isbf],
                      Addr("ND_MEMBER", F.d, top)))
    \/ /\ At("gen_expr", "ND_MEMBER", "load")
       /\ \E ty \in TypeKinds :
            LET l == load(ty, top)
            IN  Emit(l.ok /\ (F.bf => reg(l.top - 1)), l.top, Ret(F))

\* case ND_DEREF: gen_expr(node->lhs); load(node->ty)
GenDeref ==
    \/ /\ Enter("gen_expr", "ND_DEREF") /\ F.d > 0
       /\ Emit(TRUE, top, Call([F EXCEPT !.kind = "ND_DEREF", !.pc = "lhs"],
                               Expr(F.d - 1, top)))
    \/ /\ At("gen_expr", "ND_DEREF", "lhs")
       /\ \E ty \in TypeKinds :
            LET l == load(ty, top) IN Emit(l.ok, l.top, Ret(F))

\* case ND_ADDR: gen_addr(node->lhs)
GenAddrOf ==
    \/ /\ Enter("gen_expr", "ND_ADDR") /\ F.d > 0
       /\ Emit(TRUE, top, Call([F EXCEPT !.kind = "ND_ADDR", !.pc = "lhs"],
                               Addr("?", F.d - 1, top)))
    \/ /\ At("gen_expr", "ND_ADDR", "lhs")
       /\ Emit(TRUE, top, Ret(F))

\* The bit-field part of case ND_ASSIGN: the address is copied to reg(top),
\* top++, the container is loaded, the new value is merged into
\* reg(top - 3), top--.
assign_bitfield(t) ==
    LET l == load("TY_INT", t + 1)
    IN  R(reg(t - 1) /\ reg(t) /\ l.ok /\ reg(l.top - 3) /\ reg(l.top - 1),
          l.top - 1)

\* case ND_ASSIGN: an array type or a const lvalue is fatal; otherwise
\* gen_expr(node->rhs); gen_addr(node->lhs); [bit-field merge]; store(node->ty)
GenAssign ==
    \/ /\ Enter("gen_expr", "ND_ASSIGN") /\ F.d > 0
       /\ \E isarray \in BOOLEAN, isconst \in BOOLEAN, isinit \in BOOLEAN,
             isbf \in BOOLEAN :
            Emit(~isarray /\ ~(isconst /\ ~isinit), top,
                 Call([F EXCEPT !.kind = "ND_ASSIGN", !.pc = "rhs", !.bf = isbf],
                      Expr(F.d - 1, top)))
    \/ /\ At("gen_expr", "ND_ASSIGN", "rhs")
       \* a bit-field lvalue is an ND_MEMBER node
       /\ Emit(TRUE, top,
               Call([F EXCEPT !.pc = "lhs"],
                    Addr(IF F.bf THEN "ND_MEMBER" ELSE "?", F.d - 1, top)))
    \/ /\ At("gen_expr", "ND_ASSIGN", "lhs")
       /\ \E ty \in TypeKinds \ {"TY_ARRAY"} :
            LET b == IF F.bf THEN assign_bitfield(top) ELSE R(TRUE, top)
                s == store(ty, b.top)
            IN  Emit(b.ok /\ s.ok, s.top, Ret(F))

\* case ND_STMT_EXPR: gen_stmt on every statement of the body; top++
GenStmtExpr ==
    \/ /\ Enter("gen_expr", "ND_STMT_EXPR")
       /\ \E len \in 0..MaxBody :
            /\ (len > 0 => F.d > 0)
            /\ Emit(TRUE, top,
                    SetTop([F EXCEPT !.kind = "ND_STMT_EXPR", !.pc = "body", !.n = len]))
    \/ /\ At("gen_expr", "ND_STMT_EXPR", "body") /\ F.n > 0
       /\ Emit(TRUE, top, Call([F EXCEPT !.n = F.n - 1], Stmt(F.d - 1, top)))
    \/ /\ At("gen_expr", "ND_STMT_EXPR", "body") /\ F.n = 0
       /\ Emit(TRUE, top + 1, Ret(F))

\* case ND_NULL_EXPR: top++
GenNullExpr ==
    /\ Enter("gen_expr", "ND_NULL_EXPR")
    /\ Emit(TRUE, top + 1, Ret([F EXCEPT !.kind = "ND_NULL_EXPR"]))

\* case ND_COMMA: gen_expr(node->lhs); top--; gen_expr(node->rhs)
GenComma ==
    \/ /\ Enter("gen_expr", "ND_COMMA") /\ F.d > 0
       /\ Emit(TRUE, top, Call([F EXCEPT !.kind = "ND_COMMA", !.pc = "lhs"],
                               Expr(F.d - 1, top)))
    \/ /\ At("gen_expr", "ND_COMMA", "lhs")
       /\ Emit(TRUE, top - 1, Call([F EXCEPT !.pc = "rhs"], Expr(F.d - 1, top - 1)))
    \/ /\ At("gen_expr", "ND_COMMA", "rhs")
       /\ Emit(TRUE, top, Ret(F))

\* case ND_CAST: gen_expr(node->lhs); cast(node->lhs->ty, node->ty)
GenCast ==
    \/ /\ Enter("gen_expr", "ND_CAST") /\ F.d > 0
       /\ \E to \in TypeKinds :
            Emit(TRUE, top, Call([F EXCEPT !.kind = "ND_CAST", !.pc = "lhs", !.ty = to],
                                 Expr(F.d - 1, top)))
    \/ /\ At("gen_expr", "ND_CAST", "lhs")
       /\ \E from \in TypeKinds :
            LET r == cast(from, F.ty, top) IN Emit(r.ok, r.top, Ret(F))

\* case ND_COND: c = count(); gen_expr(cond); cmp_zero; je else;
\* gen_expr(then); top--; jmp end; else: gen_expr(els); end:
GenCond ==
    \/ /\ Enter("gen_expr", "ND_COND") /\ F.d > 0
       /\ EmitL(TRUE, top,
                Call([F EXCEPT !.kind = "ND_COND", !.pc = "cond", !.c = counter],
                     Expr(F.d - 1, top)),
                counter + 1, brknum, contnum)
    \/ /\ At("gen_expr", "ND_COND", "cond")
       /\ \E ty \in TypeKinds :
            LET z == cmp_zero(ty, top)
            IN  Emit(z.ok, z.top, Call([F EXCEPT !.pc = "then"], Expr(F.d - 1, z.top)))
    \/ /\ At("gen_expr", "ND_COND", "then")
       /\ Emit(TRUE, top - 1, Call([F EXCEPT !.pc = "els"], Expr(F.d - 1, top - 1)))
    \/ /\ At("gen_expr", "ND_COND", "els")
       /\ Emit(TRUE, top, Ret(F))

\* case ND_NOT: gen_expr(node->lhs); cmp_zero; sete reg(top); top++
GenNot ==
    \/ /\ Enter("gen_expr", "ND_NOT") /\ F.d > 0
       /\ Emit(TRUE, top, Call([F EXCEPT !.kind = "ND_NOT", !.pc = "lhs"],
                               Expr(F.d - 1, top)))
    \/ /\ At("gen_expr", "ND_NOT", "lhs")
       /\ \E ty \in TypeKinds :
            LET z == cmp_zero(ty, top)
            IN  Emit(z.ok /\ reg(z.top), z.top + 1, Ret(F))

\* case ND_BITNOT: gen_expr(node->lhs); not reg(top - 1)
GenBitNot ==
    \/ /\ Enter("gen_expr", "ND_BITNOT") /\ F.d > 0
       /\ Emit(TRUE, top, Call([F EXCEPT !.kind = "ND_BITNOT", !.pc = "lhs"],
                               Expr(F.d - 1, top)))
    \/ /\ At("gen_expr", "ND_BITNOT", "lhs")
       /\ Emit(reg(top - 1), top, Ret(F))

\* case ND_LOGAND / case ND_LOGOR: c = count(); gen_expr(lhs); cmp_zero;
\* jump; gen_expr(rhs); cmp_zero; jump; mov $1/$0, reg(top); ...; reg(top++)
GenLogAndOr ==
    \/ /\ \E k \in {"ND_LOGAND", "ND_LOGOR"} :
            /\ Enter("gen_expr", k) /\ F.d > 0
            /\ EmitL(TRUE, top,
                     Call([F EXCEPT !.kind = k, !.pc = "lhs", !.c = counter],
                          Expr(F.d - 1, top)),
                     counter + 1, brknum, contnum)
    \/ /\ Running("gen_expr") /\ F.kind \in {"ND_LOGAND", "ND_LOGOR"} /\ F.pc = "lhs"
       /\ \E ty \in TypeKinds :
            LET z == cmp_zero(ty, top)
            IN  Emit(z.ok, z.top, Call([F EXCEPT !.pc = "rhs"], Expr(F.d - 1, z.top)))
    \/ /\ Running("gen_expr") /\ F.kind \in {"ND_LOGAND", "ND_LOGOR"} /\ F.pc = "rhs"
       /\ \E ty \in TypeKinds :
            LET z == cmp_zero(ty, top)
            IN  Emit(z.ok /\ reg(z.top), z.top + 1, Ret(F))

\* case ND_FUNCALL: __builtin_va_start is emitted by builtin_va_start();
\* any other call saves the caller-saved registers, gen_expr(node->lhs),
\* loads the arguments from their stack slots into the argument registers,
\* call *reg(--top), restores, and moves the result to reg/freg(top++).
GenFuncall ==
    \/ /\ Enter("gen_expr", "ND_FUNCALL")
       /\ LET r == builtin_va_start(top)
          IN  Emit(r.ok, r.top, Ret([F EXCEPT !.kind = "ND_FUNCALL"]))
    \/ /\ Enter("gen_expr", "ND_FUNCALL") /\ F.d > 0
       /\ Emit(TRUE, top, Call([F EXCEPT !.kind = "ND_FUNCALL", !.pc = "fn"],
                               Expr(F.d - 1, top)))
    \/ /\ At("gen_expr", "ND_FUNCALL", "fn")
       /\ Emit(reg(top - 1) /\ reg(top - 1), (top - 1) + 1, Ret(F))

\* Binary expressions: gen_expr(lhs); gen_expr(rhs); rd = xreg(top - 2),
\* rs = xreg(top - 1), fd = freg(top - 2), fs = freg(top - 1); top--;
\* then one instruction group per operator (ND_SHL and ND_SHR read reg(top),
\* the register just released).
GenBinary ==
    \/ /\ Enter("gen_expr", "binary") /\ F.d > 0
       /\ Emit(TRUE, top, Call([F EXCEPT !.kind = "binary", !.pc = "lhs"],
                               Expr(F.d - 1, top)))
    \/ /\ At("gen_expr", "binary", "lhs")
       /\ Emit(TRUE, top, Call([F EXCEPT !.pc = "rhs"], Expr(F.d - 1, top)))
    \/ /\ At("gen_expr", "binary", "rhs")
       /\ \E op \in BinaryKinds :
            Emit(reg(top - 2) /\ reg(top - 1)
                   /\ (op \in {"ND_SHL", "ND_SHR"} => reg(top - 1)),
                 top - 1, Ret(F))

(* ------------------------------ gen_stmt ------------------------------ *)

\* case ND_IF: c = count(); gen_expr(cond); cmp_zero; gen_stmt(then);
\* [gen_stmt(els)]
GenIf ==
    \/ /\ Enter("gen_stmt", "ND_IF") /\ F.d > 0
       /\ \E haselse \in BOOLEAN :
            EmitL(TRUE, top,
                  Call([F EXCEPT !.kind = "ND_IF", !.pc = "cond", !.c = counter,
                                 !.bf = haselse],
                       Expr(F.d - 1, top)),
                  counter + 1, brknum, contnum)
    \/ /\ At("gen_stmt", "ND_IF", "cond")
       /\ \E ty \in TypeKinds :
            LET z == cmp_zero(ty, top)
            IN  Emit(z.ok, z.top, Call([F EXCEPT !.pc = "then"], Stmt(F.d - 1, z.top)))
    \/ /\ At("gen_stmt", "ND_IF", "then") /\ F.bf
       /\ Emit(TRUE, top, Call([F EXCEPT !.pc = "els"], Stmt(F.d - 1, top)))
    \/ /\ At("gen_stmt", "ND_IF", "then") /\ ~F.bf
       /\ Emit(TRUE, top, Ret(F))
    \/ /\ At("gen_stmt", "ND_IF", "els")
       /\ Emit(TRUE, top, Ret(F))

\* case ND_FOR: c = count(); brk = brknum; cont = contnum;
\* brknum = contnum = c; [gen_stmt(init)]; [gen_expr(cond); cmp_zero];
\* gen_stmt(then); [gen_expr(inc); top--]; brknum = brk; contnum = cont
GenFor ==
    \/ /\ Enter("gen_stmt", "ND_FOR") /\ F.d > 0
       /\ LET f == [F EXCEPT !.kind = "ND_FOR", !.pc = "init", !.c = counter,
                             !.brk = brknum, !.cont = contnum]
          IN  \/ EmitL(TRUE, top, Call(f, Stmt(F.d - 1, top)),
                       counter + 1, counter, counter)
              \/ EmitL(TRUE, top, SetTop(f), counter + 1, counter, counter)
    \/ /\ At("gen_stmt", "ND_FOR", "init")
       /\ \/ Emit(TRUE, top, Call([F EXCEPT !.pc = "cond"], Expr(F.d - 1, top)))
          \/ Emit(TRUE, top, Call([F EXCEPT !.pc = "then"], Stmt(F.d - 1, top)))
    \/ /\ At("gen_stmt", "ND_FOR", "cond")
       /\ \E ty \in TypeKinds :
            LET z == cmp_zero(ty, top)
            IN  Emit(z.ok, z.top, Call([F EXCEPT !.pc = "then"], Stmt(F.d - 1, z.top)))
    \/ /\ At("gen_stmt", "ND_FOR", "then")
       /\ \/ Emit(TRUE, top, Call([F EXCEPT !.pc = "inc"], Expr(F.d - 1, top)))
          \/ EmitL(TRUE, top, Ret(F), counter, F.brk, F.cont)
    \/ /\ At("gen_stmt", "ND_FOR", "inc")
       /\ EmitL(TRUE, top - 1, Ret(F), counter, F.brk, F.cont)

\* A do loop that leaves brknum and contnum at its own label.
GenDoKeep ==
    \/ /\ Enter("gen_stmt", "ND_DO") /\ F.d > 0
       /\ EmitL(TRUE, top,
                Call([F EXCEPT !.kind = "ND_DO", !.pc = "then", !.c = counter,
                               !.brk = brknum, !.cont = contnum],
                     Stmt(F.d - 1, top)),
                counter + 1, counter, counter)
    \/ /\ At("gen_stmt", "ND_DO", "then")
       /\ Emit(TRUE, top, Call([F EXCEPT !.pc = "cond"], Expr(F.d - 1, top)))
    \/ /\ At("gen_stmt", "ND_DO", "cond")
       /\ \E ty \in TypeKinds :
            LET z == cmp_zero(ty, top)
            IN  EmitL(z.ok, z.top, Ret(F), counter, brknum, contnum)

\* case ND_DO: c = count(); brk, cont saved; brknum = contnum = c;
\* gen_stmt(then); gen_expr(cond); cmp_zero; brknum = brk; contnum = cont
GenDo ==
    \/ /\ Enter("gen_stmt", "ND_DO") /\ F.d > 0
       /\ EmitL(TRUE, top,
                Call([F EXCEPT !.kind = "ND_DO", !.pc = "then", !.c = counter,
                               !.brk = brknum, !.cont = contnum],
                     Stmt(F.d - 1, top)),
                counter + 1, counter, counter)
    \/ /\ At("gen_stmt", "ND_DO", "then")
       /\ Emit(TRUE, top, Call([F EXCEPT !.pc = "cond"], Expr(F.d - 1, top)))
    \/ /\ At("gen_stmt", "ND_DO", "cond")
       /\ \E ty \in TypeKinds :
            LET z == cmp_zero(ty, top)
            IN  EmitL(z.ok, z.top, Ret(F), counter, F.brk, F.cont)

\* case ND_SWITCH: c = count(); brk = brknum; brknum = c; gen_expr(cond);
\* per case label: count() and cmp with reg(top - 1); top--;
\* [default: count()]; gen_stmt(then); brknum = brk
GenSwitch ==
    \/ /\ Enter("gen_stmt", "ND_SWITCH") /\ F.d > 0
       /\ EmitL(TRUE, top,
                Call([F EXCEPT !.kind = "ND_SWITCH", !.pc = "cond", !.c = counter,
                               !.brk = brknum],
                     Expr(F.d - 1, top)),
                counter + 1, counter, contnum)
    \/ /\ At("gen_stmt", "ND_SWITCH", "cond")
       /\ \E ncases \in 0..MaxCases, hasdefault \in BOOLEAN :
            EmitL(ncases > 0 => reg(top - 1), top - 1,
                  Call([F EXCEPT !.pc = "then"], Stmt(F.d - 1, top - 1)),
                  counter + ncases + (IF hasdefault THEN 1 ELSE 0),
                  brknum, contnum)
    \/ /\ At("gen_stmt", "ND_SWITCH", "then")
       /\ EmitL(TRUE, top, Ret(F), counter, F.brk, contnum)

\* case ND_CASE, case ND_LABEL: a label, then gen_stmt(node->lhs)
GenCaseLabel ==
    \/ /\ \E k \in {"ND_CASE", "ND_LABEL"} :
            /\ Enter("gen_stmt", k) /\ F.d > 0
            /\ Emit(TRUE, top, Call([F EXCEPT !.kind = k, !.pc = "lhs"],
                                    Stmt(F.d - 1, top)))
    \/ /\ Running("gen_stmt") /\ F.kind \in {"ND_CASE", "ND_LABEL"} /\ F.pc = "lhs"
       /\ Emit(TRUE, top, Ret(F))

\* case ND_BLOCK: gen_stmt on every statement of the body
GenBlock ==
    \/ /\ Enter("gen_stmt", "ND_BLOCK")
       /\ \E len \in 0..MaxBody :
            /\ (len > 0 => F.d > 0)
            /\ Emit(TRUE, top,
                    SetTop([F EXCEPT !.kind = "ND_BLOCK", !.pc = "body", !.n = len]))
    \/ /\ At("gen_stmt", "ND_BLOCK", "body") /\ F.n > 0
       /\ Emit(TRUE, top, Call([F EXCEPT !.n = F.n - 1], Stmt(F.d - 1, top)))
    \/ /\ At("gen_stmt", "ND_BLOCK", "body") /\ F.n = 0
       /\ Emit(TRUE, top, Ret(F))

\* case ND_BREAK: "stray break" if brknum == 0, else a jump
GenBreak ==
    /\ Enter("gen_stmt", "ND_BREAK")
    /\ Emit(brknum # 0, top, Ret([F EXCEPT !.kind = "ND_BREAK"]))

\* case ND_CONTINUE: "stray continue" if contnum == 0, else a jump
GenContinue ==
    /\ Enter("gen_stmt", "ND_CONTINUE")
    /\ Emit(contnum # 0, top, Ret([F EXCEPT !.kind = "ND_CONTINUE"]))

\* case ND_GOTO: a jump
GenGoto ==
    /\ Enter("gen_stmt", "ND_GOTO")
    /\ Emit(TRUE, top, Ret([F EXCEPT !.kind = "ND_GOTO"]))

\* case ND_RETURN: [gen_expr(lhs); mov reg/freg(--top) to rax/xmm0]; jump
GenReturn ==
    \/ /\ Enter("gen_stmt", "ND_RETURN")
       /\ Emit(TRUE, top, Ret([F EXCEPT !.kind = "ND_RETURN"]))
    \/ /\ Enter("gen_stmt", "ND_RETURN") /\ F.d > 0
       /\ Emit(TRUE, top, Call([F EXCEPT !.kind = "ND_RETURN", !.pc = "lhs"],
                               Expr(F.d - 1, top)))
    \/ /\ At("gen_stmt", "ND_RETURN", "lhs")
       /\ Emit(reg(top - 1), top - 1, Ret(F))

\* case ND_EXPR_STMT: gen_expr(node->lhs); top--
GenExprStmt ==
    \/ /\ Enter("gen_stmt", "ND_EXPR_STMT") /\ F.d > 0
       /\ Emit(TRUE, top, Call([F EXCEPT !.kind = "ND_EXPR_STMT", !.pc = "lhs"],
                               Expr(F.d - 1, top)))
    \/ /\ At("gen_stmt", "ND_EXPR_STMT", "lhs")
       /\ Emit(TRUE, top - 1, Ret(F))

(* ------------------------------ emit_text ----------------------------- *)

\* for (fn = prog->fns; fn; fn = fn->next) { prologue; gen_stmt(fn->body);
EmitFn ==
    /\ Running("emit_text") /\ F.pc = "loop" /\ fnleft > 0
    /\ top' = top
    /\ frames' = Call([F EXCEPT !.pc = "body"],
                      Frame("gen_stmt", "ND_BLOCK", RootDepth, top))
    /\ fnleft' = fnleft - 1
    /\ UNCHANGED <<brknum, contnum, counter, cgst, astclass, notcg>>

\* assert(top == 0); epilogue }
FnEnd ==
    /\ Running("emit_text") /\ F.pc = "body"
    /\ cgst' = IF top = 0 THEN "run" ELSE "assert_failed"
    /\ frames' = SetTop([F EXCEPT !.pc = "loop"])
    /\ UNCHANGED <<top, brknum, contnum, counter, fnleft, astclass, notcg>>

\* the loop of emit_text ends
EmitDone ==
    /\ Running("emit_text") /\ F.pc = "loop" /\ fnleft = 0
    /\ cgst' = "done"
    /\ UNCHANGED <<top, brknum, contnum, counter, frames, fnleft, astclass, notcg>>

IdleCG ==
    /\ top = 0 /\ brknum = 0 /\ contnum = 0 /\ counter = 1 /\ fnleft = 0
    /\ astclass = "broad" /\ frames = <<>> /\ cgst = "idle"

InitCGState ==
    /\ top = 0 /\ brknum = 0 /\ contnum = 0 /\ counter = 1
    /\ fnleft \in 1..MaxFns
    /\ astclass \in {"broad", "chain"}
    /\ frames = <<[Frame("emit_text", "-", 0, 0) EXCEPT !.pc = "loop"]>>
    /\ cgst = "run"

NextCG ==
    \/ EmitFn \/ FnEnd \/ EmitDone \/ Return
    \/ AddrVar \/ AddrDeref \/ AddrComma \/ AddrMember \/ AddrNotLvalue
    \/ GenNum \/ GenVar \/ GenMember \/ GenDeref \/ GenAddrOf \/ GenAssign
    \/ GenStmtExpr \/ GenNullExpr \/ GenComma \/ GenCast \/ GenCond \/ GenNot
    \/ GenBitNot \/ GenLogAndOr \/ GenFuncall \/ GenBinary
    \/ GenIf \/ GenFor \/ GenDo \/ GenSwitch \/ GenCaseLabel \/ GenBlock
    \/ GenBreak \/ GenContinue \/ GenGoto \/ GenReturn \/ GenExprStmt

(***************************************************************************)
(*                         parse.c : block scopes                          *)
(***************************************************************************)

MaxScopeDepth == 3      \* nesting of blocks
MaxScopeEntries == 3    \* entries of each scope list
VarNames == {"x", "y"}  \* identifiers declared as variables or typedefs
TagNames == {"t"}       \* struct / union / enum tags

\* A leave_scope() loop that also drops the entries of the enclosing block.
RECURSIVE scope_pop_ge(_, _)
scope_pop_ge(sc, depth) ==
    IF sc # <<>> /\ Head(sc).depth >= depth THEN scope_pop_ge(Tail(sc), depth)
    ELSE sc

\* The loops of leave_scope(): while (sc && sc->depth > depth) sc = sc->next
RECURSIVE scope_pop(_, _)
scope_pop(sc, depth) ==
    IF sc # <<>> /\ Head(sc).depth > depth THEN scope_pop(Tail(sc), depth)
    ELSE sc

\* find_var(), find_tag(): the first entry of that name, or <<>> for NULL
RECURSIVE find_scope(_, _)
find_scope(sc, name) ==
    IF sc = <<>> THEN <<>>
    ELSE IF Head(sc).name = name THEN <<Head(sc)>>
    ELSE find_scope(Tail(sc), name)

\* sclast: the operation, the lists at the matching enter_scope(), and the
\* variable list just before the operation
ScLast(op, vs, ts, pre) == [op |-> op, vs |-> vs, ts |-> ts, pre |-> pre]

\* enter_scope(): scope_depth++
enter_scope ==
    /\ scope_depth < MaxScopeDepth
    /\ scope_depth' = scope_depth + 1
    /\ blocks' = Append(blocks, [vs |-> var_scope, ts |-> tag_scope])
    /\ sclast' = ScLast("enter_scope", <<>>, <<>>, <<>>)
    /\ UNCHANGED <<var_scope, tag_scope, notsc>>

\* leave_scope(): scope_depth--; pop both lists down to the new depth.
\* Every call follows the enter_scope() of the same function activation.
leave_scope ==
    /\ scope_depth > 0
    /\ scope_depth' = scope_depth - 1
    /\ var_scope' = scope_pop(var_scope, scope_depth - 1)
    /\ tag_scope' = scope_pop(tag_scope, scope_depth - 1)
    /\ blocks' = SubSeq(blocks, 1, Len(blocks) - 1)
    /\ sclast' = ScLast("leave_scope", blocks[Len(blocks)].vs, blocks[Len(blocks)].ts,
                        var_scope)
    /\ UNCHANGED notsc

\* push_scope(name): a variable, typedef or enumerator at the current depth
push_scope ==
    /\ Len(var_scope) < MaxScopeEntries
    /\ \E name \in VarNames :
         var_scope' = <<[name |-> name, depth |-> scope_depth]>> \o var_scope
    /\ sclast' = ScLast("push_scope", <<>>, <<>>, <<>>)
    /\ UNCHANGED <<tag_scope, scope_depth, blocks, notsc>>

\* push_tag_scope(tok, ty): a tag at the current depth
push_tag_scope ==
    /\ Len(tag_scope) < MaxScopeEntries
    /\ \E name \in TagNames :
         tag_scope' = <<[name |-> name, depth |-> scope_depth]>> \o tag_scope
    /\ sclast' = ScLast("push_tag_scope", <<>>, <<>>, <<>>)
    /\ UNCHANGED <<var_scope, scope_depth, blocks, notsc>>

IdleSC ==
    /\ var_scope = <<>> /\ tag_scope = <<>> /\ scope_depth = 0
    /\ blocks = <<>> /\ sclast = ScLast("none", <<>>, <<>>, <<>>)

NextScope == enter_scope \/ leave_scope \/ push_scope \/ push_tag_scope

(***************************************************************************)
(*                     preprocess.c : tokens and macros                    *)
(***************************************************************************)

\* A token is [t, bol, sp, hs]: its text, Token.at_bol, Token.has_space and
\* Token.hideset (a list used as a set of macro names).  The token kinds
\* the preprocessor tests are read off the text.
PPIdents == {"X", "T", "U", "F", "G", "x", "defined", "define", "undef", "if",
             "ifdef", "ifndef", "elif", "else", "endif", "error", "foo",
             "__711cc__"}
PPNumbers == {"0", "1"}
IsIdent(t) == t \in PPIdents           \* tok->kind == TK_IDENT
IsEOF(tok) == tok.t = "EOF"            \* tok->kind == TK_EOF

Tok(t, bol, sp) == [t |-> t, bol |-> bol, sp |-> sp, hs |-> {}]

\* is_hash(tok)
is_hash(tok) == tok.bol /\ tok.t = "#"

\* skip_line(tok): returns tok if it starts a line; otherwise warns and runs
\* "while (tok->at_bol) tok = tok->next", which stops at once.
RECURSIVE skip_line_loop(_)
skip_line_loop(toks) ==
    IF Head(toks).bol THEN skip_line_loop(Tail(toks)) ELSE toks
skip_line(toks) ==
    IF Head(toks).bol THEN toks ELSE skip_line_loop(toks)

\* new_eof(tok): a copy of tok turned into TK_EOF
new_eof(tok) == [tok EXCEPT !.t = "EOF"]

\* new_num_token(val, tmpl): tokenize("<val>\n"); the first token of a
\* tokenized buffer is at the beginning of a line.
new_num_token(val) == Tok(IF val = 0 THEN "0" ELSE "1", TRUE, FALSE)

\* A hideset that forgets the macro being expanded.
new_hideset_empty(name) == {}

\* new_hideset(name)
new_hideset(name) == {name}

\* hideset_union(hs1, hs2)
hideset_union(hs1, hs2) == hs1 \cup hs2

\* A membership test that never finds the name.
hideset_never(hs, s) == FALSE

\* hideset_contains(hs, s, len)
hideset_contains(hs, s) == s \in hs

\* An "intersection" that keeps all of the macro token's hideset.
hideset_first(hs1, hs2) == hs1

\* hideset_intersection(hs1, hs2)
hideset_intersection(hs1, hs2) == {n \in hs1 : hideset_contains(hs2, n)}

\* add_hideset(tok, hs): every token of the list (the final EOF included)
\* gets hideset_union(its own hideset, hs)
add_hideset(toks, hs) ==
    [i \in 1..Len(toks) |-> [toks[i] EXCEPT !.hs = hideset_union(@, hs)]]

\* Op applied to the value of v, which is computed once.
With(v, Op(_)) == CHOOSE y \in {Op(x) : x \in {v}} : TRUE

\* the tokens of a list before its first EOF
RECURSIVE BeforeEOF(_)
BeforeEOF(toks) ==
    IF toks = <<>> \/ IsEOF(Head(toks)) THEN <<>>
    ELSE <<Head(toks)>> \o BeforeEOF(Tail(toks))

\* append(tok1, tok2)
append(tok1, tok2) == BeforeEOF(tok1) \o tok2

\* copy_line(rest, tok): the tokens up to the next at_bol token, closed by
\* new_eof of that token; *rest is that token.
RECURSIVE LineLen(_)
LineLen(toks) ==
    IF toks = <<>> \/ Head(toks).bol THEN 0 ELSE 1 + LineLen(Tail(toks))
copy_line(toks) ==
    With(LineLen(toks), LAMBDA n :
        [line |-> SubSeq(toks, 1, n) \o <<new_eof(toks[n + 1])>>,
         rest |-> SubSeq(toks, n + 1, Len(toks))])

\* A lookup that passes over deleted entries and keeps searching.
RECURSIVE find_macro_skip(_, _)
find_macro_skip(ms, tok) ==
    IF ~IsIdent(tok.t) \/ ms = <<>> THEN <<>>
    ELSE IF Head(ms).name = tok.t /\ ~Head(ms).deleted THEN <<Head(ms)>>
    ELSE find_macro_skip(Tail(ms), tok)

\* find_macro(tok): the first entry of that name decides; <<>> is NULL
RECURSIVE find_macro(_, _)
find_macro(ms, tok) ==
    IF ~IsIdent(tok.t) \/ ms = <<>> THEN <<>>
    ELSE IF Head(ms).name = tok.t
         THEN (IF Head(ms).deleted THEN <<>> ELSE <<Head(ms)>>)
    ELSE find_macro(Tail(ms), tok)

\* add_macro(name, is_objlike, body) and the fields set by its callers
Macro(name, is_objlike, params, body, deleted) ==
    [name |-> name, is_objlike |-> is_objlike, params |-> params,
     body |-> body, deleted |-> deleted]
add_macro(ms, m) == <<m>> \o ms

\* skip(tok, op): the rest after op, or <<>> for error_tok
skip(toks, op) == IF Head(toks).t = op THEN Tail(toks) ELSE <<>>

PPFail == [ok |-> FALSE, params |-> <<>>, args |-> <<>>, arg |-> <<>>,
           rest |-> <<>>, m |-> <<>>]

\* read_macro_params(rest, tok, is_variadic), without "..."
RECURSIVE read_macro_params(_, _)
read_macro_params(toks, params) ==
    IF Head(toks).t = ")"
    THEN [ok |-> TRUE, params |-> params, rest |-> Tail(toks)]
    ELSE LET t1 == IF params # <<>> THEN skip(toks, ",") ELSE toks
         IN  IF t1 = <<>> \/ ~IsIdent(Head(t1).t) THEN PPFail
             ELSE read_macro_params(Tail(t1), Append(params, Head(t1).t))

\* read_macro_definition(rest, tok): tok is the token after "define"
read_macro_definition(toks) ==
    IF ~IsIdent(Head(toks).t) THEN PPFail
    ELSE LET name == Head(toks).t
             t1 == Tail(toks)
         IN  IF ~Head(t1).sp /\ Head(t1).t = "("
             THEN With(read_macro_params(Tail(t1), <<>>), LAMBDA ps :
                      IF ~ps.ok THEN PPFail
                      ELSE With(copy_line(ps.rest), LAMBDA cl :
                               [ok |-> TRUE, rest |-> cl.rest,
                                m |-> Macro(name, FALSE, ps.params, cl.line, FALSE)]))
             ELSE With(copy_line(t1), LAMBDA cl :
                      [ok |-> TRUE, rest |-> cl.rest,
                       m |-> Macro(name, TRUE, <<>>, cl.line, FALSE)])

\* read_macro_arg_one(rest, tok, read_rest = false)
RECURSIVE read_macro_arg_one(_, _, _)
read_macro_arg_one(toks, level, acc) ==
    LET tok == Head(toks)
    IN  IF level = 0 /\ tok.t \in {")", ","}
        THEN [ok |-> TRUE, arg |-> Append(acc, new_eof(tok)), rest |-> toks]
        ELSE IF IsEOF(tok) THEN PPFail      \* "paramater end of input"
        ELSE read_macro_arg_one(Tail(toks),
                                IF tok.t = "(" THEN level + 1
                                ELSE IF tok.t = ")" THEN level - 1 ELSE level,
                                Append(acc, tok))

\* read_macro_args(rest, tok, params, is_variadic = false): toks starts at
\* the macro token; one argument per parameter, then skip(tok, ")");
\* rest starts at the closing parenthesis.
RECURSIVE read_macro_args_loop(_, _, _)
read_macro_args_loop(toks, pp, args) ==
    IF pp = <<>> THEN [ok |-> TRUE, args |-> args, rest |-> toks]
    ELSE LET t1 == IF args # <<>> THEN skip(toks, ",") ELSE toks
         IN  IF t1 = <<>> THEN PPFail
             ELSE With(read_macro_arg_one(t1, 0, <<>>), LAMBDA a :
                      IF ~a.ok THEN PPFail
                      ELSE read_macro_args_loop(a.rest, Tail(pp),
                               Append(args, [name |-> Head(pp), tok |-> a.arg])))
read_macro_args(toks, params) ==
    With(read_macro_args_loop(SubSeq(toks, 3, Len(toks)), params, <<>>), LAMBDA r :
        IF r.ok /\ skip(r.rest, ")") # <<>> THEN r ELSE PPFail)

\* find_arg(args, tok): <<>> is NULL
RECURSIVE find_arg(_, _)
find_arg(args, tok) ==
    IF args = <<>> THEN <<>>
    ELSE IF Head(args).name = tok.t THEN <<Head(args).tok>>
    ELSE find_arg(Tail(args), tok)

PPFuel == 24        \* nesting of preprocess2 / expand_macro / subst calls

\* Outcome of a nested preprocessing call: res is "ok", "error" (error_tok),
\* "hang" (the nesting bound was exceeded) or "unmodelled" (the list holds
\* something outside the modelled token language).
PPRes(res, toks) == [res |-> res, toks |-> toks, fb |-> <<>>, rp |-> {}]
NoExpansion == PPRes("no", <<>>)

RECURSIVE preprocess2(_, _, _), subst(_, _, _, _), expand_macro(_, _, _)

\* subst(tok, args): a parameter is replaced by its argument, completely
\* macro-expanded by preprocess2(arg); any other token is copied.  The
\* operators # and ## are not in the token language.  fb[i] tells whether
\* toks[i] is a copy of a token of the macro body.
subst(body, args, ms, fuel) ==
    IF IsEOF(Head(body))
    THEN [res |-> "ok", toks |-> <<Head(body)>>, fb |-> <<FALSE>>, rp |-> {}]
    ELSE With(find_arg(args, Head(body)), LAMBDA arg :
         With(subst(Tail(body), args, ms, fuel), LAMBDA r :
             IF arg # <<>>
             THEN With(preprocess2(arg[1], ms, fuel), LAMBDA a :
                  With(BeforeEOF(a.toks), LAMBDA ex :
                      IF a.res # "ok" THEN PPRes(a.res, <<>>)
                      ELSE IF r.res # "ok" THEN r
                      ELSE [res |-> "ok", toks |-> ex \o r.toks,
                            fb |-> [i \in 1..Len(ex) |-> FALSE] \o r.fb, rp |-> {}]))
             ELSE IF r.res # "ok" THEN r
             ELSE [res |-> "ok", toks |-> <<Head(body)>> \o r.toks,
                   fb |-> <<TRUE>> \o r.fb, rp |-> {}]))

\* expand_macro(rest, tok): res = "no" when it returns false, "yes" with the
\* new token list when it returns true.  rp is the hideset of the closing
\* parenthesis, fb marks the body tokens of the replacement.  (The built-in
\* handler macros __FILE__ and __LINE__ are not in the token language.)
expand_macro(toks, ms, fuel) ==
    With(Head(toks), LAMBDA tok :
    With(find_macro(ms, tok), LAMBDA fm :
        IF hideset_contains(tok.hs, tok.t) THEN NoExpansion
        ELSE IF fm = <<>> THEN NoExpansion
        ELSE IF fm[1].is_objlike
        THEN With(hideset_union(tok.hs, new_hideset(fm[1].name)), LAMBDA hs :
             With(add_hideset(fm[1].body, hs), LAMBDA body :
                 [res |-> "yes", toks |-> append(body, Tail(toks)),
                  fb |-> [i \in 1..Len(BeforeEOF(body)) |-> TRUE], rp |-> {}]))
        ELSE IF toks[2].t # "(" THEN NoExpansion
        ELSE With(read_macro_args(toks, fm[1].params), LAMBDA ra :
                 IF ~ra.ok THEN PPRes("error", <<>>)
                 ELSE With(Head(ra.rest), LAMBDA rparen :
                      With(hideset_union(hideset_intersection(tok.hs, rparen.hs),
                                         new_hideset(fm[1].name)), LAMBDA hs :
                      With(subst(fm[1].body, ra.args, ms, fuel), LAMBDA sb :
                          IF sb.res # "ok" THEN PPRes(sb.res, <<>>)
                          ELSE With(add_hideset(sb.toks, hs), LAMBDA body :
                                   [res |-> "yes",
                                    toks |-> append(body, Tail(ra.rest)),
                                    fb |-> SubSeq(sb.fb, 1, Len(sb.fb) - 1),
                                    rp |-> rparen.hs])))))))

\* preprocess2(tok) on a list without directives (a macro argument, the
\* expression of #if): the loop of preprocess2, returning the output list
\* closed by the EOF token.
preprocess2(toks, ms, fuel) ==
    IF fuel = 0 THEN PPRes("hang", <<>>)
    ELSE IF IsEOF(Head(toks)) THEN PPRes("ok", <<Head(toks)>>)
    ELSE With(expand_macro(toks, ms, fuel - 1), LAMBDA e :
             IF e.res = "yes" THEN preprocess2(e.toks, ms, fuel - 1)
             ELSE IF e.res # "no" THEN PPRes(e.res, <<>>)
             ELSE IF is_hash(Head(toks)) THEN PPRes("unmodelled", <<>>)
             ELSE With(preprocess2(Tail(toks), ms, fuel - 1), LAMBDA r :
                      IF r.res # "ok" THEN r
                      ELSE PPRes("ok", <<Head(toks)>> \o r.toks)))

\* read_const_expr(rest, tok) after copy_line: "defined X" and
\* "defined(X)" become 1 or 0
RECURSIVE read_const_expr(_, _)
read_const_expr(toks, ms) ==
    IF IsEOF(Head(toks)) THEN PPRes("ok", <<Head(toks)>>)
    ELSE IF Head(toks).t = "defined"
    THEN LET has_paren == toks[2].t = "("
             t1 == IF has_paren THEN SubSeq(toks, 3, Len(toks)) ELSE Tail(toks)
             m == find_macro(ms, Head(t1))
             t2 == IF has_paren THEN skip(Tail(t1), ")") ELSE Tail(t1)
             r == read_const_expr(t2, ms)
         IN  IF ~IsIdent(Head(t1).t) THEN PPRes("error", <<>>)
             ELSE IF t2 = <<>> THEN PPRes("error", <<>>)
             ELSE IF r.res # "ok" THEN r
             ELSE PPRes("ok", <<new_num_token(IF m # <<>> THEN 1 ELSE 0)>> \o r.toks)
    ELSE LET r == read_const_expr(Tail(toks), ms)
         IN  IF r.res # "ok" THEN r
             ELSE PPRes("ok", <<Head(toks)>> \o r.toks)

\* The loop of eval_const_expr that replaces every identifier left after
\* macro expansion by the number 0
RECURSIVE idents_to_zero(_)
idents_to_zero(toks) ==
    IF toks = <<>> THEN <<>>
    ELSE <<IF IsIdent(Head(toks).t) THEN new_num_token(0) ELSE Head(toks)>>
         \o idents_to_zero(Tail(toks))

\* "expr = preprocess2(expr)" of eval_const_expr, on the result of
\* read_const_expr
expand_const_expr(rc, ms) ==
    IF rc.res # "ok" THEN rc ELSE preprocess2(rc.toks, ms, PPFuel)

\* const_expr(&rest2, expr) and the "extra token" test of eval_const_expr.
\* Only expressions that are one number after expansion are in the modelled
\* language.  Returns res, the value and the rest of the input.
const_expr(ex, rest) ==
    IF ex.res # "ok" THEN [res |-> ex.res, val |-> 0, rest |-> rest]
    ELSE LET nums == idents_to_zero(ex.toks)
         IN  IF Len(nums) = 2 /\ nums[1].t \in PPNumbers
             THEN [res |-> "ok", val |-> IF nums[1].t = "0" THEN 0 ELSE 1,
                   rest |-> rest]
             ELSE [res |-> "unmodelled", val |-> 0, rest |-> rest]

\* eval_const_expr(rest, tok): copy_line, read_const_expr, preprocess2,
\* remaining identifiers become 0, const_expr
eval_const_expr(toks, ms) ==
    LET cl == copy_line(toks)
    IN  const_expr(expand_const_expr(read_const_expr(cl.line, ms), ms), cl.rest)

\* skip_cond_incl2(tok): skip a nested conditional up to its #endif
\* A skip that does not pass over a nested conditional.
skip_cond_incl2_none(toks) == toks

RECURSIVE skip_cond_incl2(_)
skip_cond_incl2(toks) ==
    IF IsEOF(Head(toks)) THEN toks
    ELSE IF is_hash(Head(toks)) /\ toks[2].t \in {"if", "ifdef", "ifndef"}
    THEN skip_cond_incl2(skip_cond_incl2(SubSeq(toks, 3, Len(toks))))
    ELSE IF is_hash(Head(toks)) /\ toks[2].t = "endif"
    THEN SubSeq(toks, 3, Len(toks))
    ELSE skip_cond_incl2(Tail(toks))

\* skip_cond_incl(tok): skip to the next #elif, #else or #endif of this level
RECURSIVE skip_cond_incl(_)
skip_cond_incl(toks) ==
    IF IsEOF(Head(toks)) THEN toks
    ELSE IF is_hash(Head(toks)) /\ toks[2].t \in {"if", "ifdef", "ifndef"}
    THEN skip_cond_incl(skip_cond_incl2(SubSeq(toks, 3, Len(toks))))
    ELSE IF is_hash(Head(toks)) /\ toks[2].t \in {"elif", "else", "endif"}
    THEN toks
    ELSE skip_cond_incl(Tail(toks))

(***************************************************************************)
(*                     preprocess.c : preprocess2's loop                   *)
(***************************************************************************)

MaxLines == 4       \* lines of the source file

DirectiveNames == {"define", "undef", "if", "ifdef", "ifndef", "elif", "else",
                   "endif", "error"}

\* push_cond_incl(tok, included)
push_cond_incl(ci, included) ==
    <<[ctx |-> "IN_THEN", included |-> included]>> \o ci

\* "if (!cond_incl || cond_incl->ctx == IN_ELSE)" of #elif and #else
stray(ci) == ci = <<>> \/ Head(ci).ctx = "IN_ELSE"

\* A final test that accepts an open conditional.
never_open(ci) == FALSE

\* "if (cond_incl)" of preprocess()
unterminated(ci) == ci # <<>>

PPLast(op, T, m, e) ==
    [op |-> op, T |-> T, m |-> m, rp |-> e.rp, fb |-> e.fb,
     repl |-> SubSeq(e.toks, 1, Len(e.fb))]

\* One iteration of the loop ends with these values.
PPStep(in, out, ms, ci, last, hist) ==
    /\ ppin' = in /\ ppout' = out /\ macros' = ms /\ cond_incl' = ci
    /\ pplast' = last /\ pphist' = hist
    /\ UNCHANGED <<ppst, pperr, ppsrc, notpp>>

\* The preprocessor stops: error_tok(), or the end of preprocess().
PPStop(st, msg) ==
    /\ ppst' = st /\ pperr' = msg
    /\ UNCHANGED <<ppin, ppout, macros, cond_incl, ppsrc, pplast, pphist, notpp>>

PPAt == ppst = "run" /\ ~IsEOF(Head(ppin))
PPDirective(name) == PPAt /\ is_hash(Head(ppin)) /\ ppin[2].t = name
PPRest(i) == SubSeq(ppin, i, Len(ppin))

\* if (expand_macro(&tok, tok)) continue;
ExpandMacro ==
    /\ PPAt
    /\ \E e \in {expand_macro(ppin, macros, PPFuel)} :
          /\ e.res # "no"
          /\ IF e.res = "yes"
             THEN PPStep(e.toks, ppout, macros, cond_incl,
                         PPLast("expand", Head(ppin),
                                find_macro(macros, Head(ppin)), e),
                         pphist)
             ELSE PPStop(e.res, "macro arguments")

\* if (!is_hash(tok)) { cur = cur->next = tok; tok = tok->next; continue; }
PassToken ==
    /\ PPAt
    /\ expand_macro(ppin, macros, PPFuel).res = "no"
    /\ ~is_hash(Head(ppin))
    /\ PPStep(Tail(ppin), Append(ppout, Head(ppin)), macros, cond_incl,
              PPLast("pass", Head(ppin), <<>>, NoExpansion), pphist)

\* #define: read_macro_definition(&tok, tok->next)
Define ==
    /\ PPDirective("define")
    /\ \E d \in {read_macro_definition(PPRest(3))} :
          IF d.ok
          THEN PPStep(d.rest, ppout, add_macro(macros, d.m), cond_incl,
                      PPLast("define", ppin[3], <<>>, NoExpansion),
                      Append(pphist, d.m))
          ELSE PPStop("error", "macro definition")

\* #undef: add_macro(name, true, NULL)->deleted = true
Undef ==
    /\ PPDirective("undef")
    /\ IF ~IsIdent(ppin[3].t)
       THEN PPStop("error", "macro name must be an identifier")
       ELSE LET m == Macro(ppin[3].t, TRUE, <<>>, <<>>, TRUE)
            IN  PPStep(skip_line(PPRest(4)), ppout, add_macro(macros, m), cond_incl,
                       PPLast("undef", ppin[3], <<>>, NoExpansion),
                       Append(pphist, m))

\* #if: eval_const_expr, push_cond_incl, skip_cond_incl if the value is 0
If ==
    /\ PPDirective("if")
    /\ LET v == eval_const_expr(PPRest(3), macros)
       IN  IF v.res = "ok"
           THEN PPStep(IF v.val = 0 THEN skip_cond_incl(v.rest) ELSE v.rest,
                       ppout, macros, push_cond_incl(cond_incl, v.val # 0),
                       PPLast("if", ppin[2], <<>>, NoExpansion), pphist)
           ELSE PPStop(v.res, "constant expression")

\* #ifdef: find_macro(tok->next), push_cond_incl, skip_line, skip_cond_incl
Ifdef ==
    /\ PPDirective("ifdef") /\ Len(ppin) >= 4
    /\ LET defined == find_macro(macros, ppin[3]) # <<>>
           rest == skip_line(PPRest(4))
       IN  PPStep(IF ~defined THEN skip_cond_incl(rest) ELSE rest,
                  ppout, macros, push_cond_incl(cond_incl, defined),
                  PPLast("ifdef", ppin[3], <<>>, NoExpansion), pphist)

\* #ifndef
Ifndef ==
    /\ PPDirective("ifndef") /\ Len(ppin) >= 4
    /\ LET defined == find_macro(macros, ppin[3]) # <<>>
           rest == skip_line(PPRest(4))
       IN  PPStep(IF defined THEN skip_cond_incl(rest) ELSE rest,
                  ppout, macros, push_cond_incl(cond_incl, ~defined),
                  PPLast("ifndef", ppin[3], <<>>, NoExpansion), pphist)

\* #elif: stray unless a conditional is open and not yet in its #else;
\* the expression is evaluated only if no group has been included yet.
Elif ==
    /\ PPDirective("elif")
    /\ IF stray(cond_incl) THEN PPStop("error", "stray #elif")
       ELSE LET ci == [Head(cond_incl) EXCEPT !.ctx = "IN_ELIF"]
                v == eval_const_expr(PPRest(3), macros)
                last == PPLast("elif", ppin[2], <<>>, NoExpansion)
            IN  IF ci.included
                THEN PPStep(skip_cond_incl(PPRest(2)), ppout, macros,
                            <<ci>> \o Tail(cond_incl), last, pphist)
                ELSE IF v.res # "ok" THEN PPStop(v.res, "constant expression")
                ELSE IF v.val # 0
                THEN PPStep(v.rest, ppout, macros,
                            <<[ci EXCEPT !.included = TRUE]>> \o Tail(cond_incl),
                            last, pphist)
                ELSE PPStep(skip_cond_incl(v.rest), ppout, macros,
                            <<ci>> \o Tail(cond_incl), last, pphist)

\* #else
Else ==
    /\ PPDirective("else")
    /\ IF stray(cond_incl) THEN PPStop("error", "stray #else")
       ELSE LET ci == [Head(cond_incl) EXCEPT !.ctx = "IN_ELSE"]
                rest == skip_line(PPRest(3))
            IN  PPStep(IF ci.included THEN skip_cond_incl(rest) ELSE rest,
                       ppout, macros, <<ci>> \o Tail(cond_incl),
                       PPLast("else", ppin[2], <<>>, NoExpansion), pphist)

\* #endif
Endif ==
    /\ PPDirective("endif")
    /\ IF cond_incl = <<>> THEN PPStop("error", "stray #endif")
       ELSE PPStep(skip_line(PPRest(3)), ppout, macros, Tail(cond_incl),
                   PPLast("endif", ppin[2], <<>>, NoExpansion), pphist)

\* #error
ErrorDirective ==
    /\ PPDirective("error")
    /\ PPStop("error", "#error")

\* a "#" alone on its line: if (tok->at_bol) continue;
NullDirective ==
    /\ PPAt /\ is_hash(Head(ppin))
    /\ ppin[2].t \notin DirectiveNames /\ ppin[2].bol
    /\ PPStep(Tail(ppin), ppout, macros, cond_incl,
              PPLast("null", Head(ppin), <<>>, NoExpansion), pphist)

\* error_tok(tok, "invalid preprocessor directive")
InvalidDirective ==
    /\ PPAt /\ is_hash(Head(ppin))
    /\ ppin[2].t \notin DirectiveNames /\ ~ppin[2].bol
    /\ PPStop("error", "invalid preprocessor directive")

\* The loop ends at TK_EOF: cur->next = tok; preprocess() then fails on an
\* open conditional.  (convert_pp_tokens and join_adjacent_string_literals
\* only retype and merge tokens the model does not distinguish.)
PPFinish ==
    /\ ppst = "run" /\ IsEOF(Head(ppin))
    /\ IF unterminated(cond_incl)
       THEN PPStop("error", "unterminated conditional directive")
       ELSE /\ ppst' = "done" /\ ppout' = Append(ppout, Head(ppin))
            /\ UNCHANGED <<ppin, macros, cond_incl, pperr, ppsrc, pplast,
                           pphist, notpp>>

\* The source files explored: up to MaxLines lines drawn from a pool.
Line(ts, glued) ==
    [i \in 1..Len(ts) |-> Tok(ts[i], i = 1, i > 1 /\ i \notin glued)]
EOFTok == Tok("EOF", TRUE, FALSE)

MacroPool == <<
    Line(<<"#", "define", "X", "X">>, {2}),
    Line(<<"#", "define", "T", "U">>, {2}),
    Line(<<"#", "define", "U", "T">>, {2}),
    Line(<<"#", "define", "T", "F">>, {2}),
    Line(<<"#", "define", "F", "(", "x", ")", "x", "T">>, {2, 4, 5, 6}),
    Line(<<"#", "undef", "T">>, {2}),
    Line(<<"X">>, {}),
    Line(<<"T", "(", "U", ")">>, {}),
    Line(<<"F", "(", "X", ")">>, {}),
    Line(<<"#", "define", "G", "(", "x", ")", "G", "(", "x", ")">>, {2, 4, 5, 6}),
    Line(<<"G", "(", "X", ")">>, {}) >>

CondPool == <<
    Line(<<"#", "define", "X", "1">>, {2}),
    Line(<<"X">>, {}),
    Line(<<"#", "ifdef", "X">>, {2}),
    Line(<<"#", "ifndef", "X">>, {2}),
    Line(<<"#", "if", "X">>, {2}),
    Line(<<"#", "if", "defined", "(", "X", ")">>, {2, 4, 5, 6}),
    Line(<<"#", "elif", "__711cc__">>, {2}),
    Line(<<"#", "else">>, {2}),
    Line(<<"#", "endif">>, {2}),
    Line(<<"#">>, {}),
    Line(<<"#", "error">>, {2}),
    Line(<<"#", "foo">>, {2}) >>

RECURSIVE Flatten(_, _)
Flatten(pool, idx) ==
    IF idx = <<>> THEN <<EOFTok>> ELSE pool[Head(idx)] \o Flatten(pool, Tail(idx))

\* init_macros(): the predefined macros (one stands for the forty-odd
\* define_macro calls; its body is a tokenized buffer)
init_macros == <<Macro("__711cc__", TRUE, <<>>, <<Tok("1", TRUE, FALSE), EOFTok>>, FALSE)>>

IdlePP ==
    /\ ppin = <<>> /\ ppout = <<>> /\ macros = <<>> /\ cond_incl = <<>>
    /\ ppst = "idle" /\ pperr = "" /\ ppsrc = <<>> /\ pphist = <<>>
    /\ pplast = PPLast("none", EOFTok, <<>>, NoExpansion)

\* Before main() calls tokenize_file(): it has called init_macros() and read
\* a command line without -D.
InitPP ==
    /\ ppin = <<>> /\ ppout = <<>> /\ macros = init_macros
    /\ cond_incl = <<>>
    /\ ppst = "start" /\ pperr = "" /\ ppsrc = <<>> /\ pphist = <<>>
    /\ pplast = PPLast("none", EOFTok, <<>>, NoExpansion)

\* The tokenizer hands over the source file: up to MaxLines lines, each
\* drawn from a pool of lines.
NumLines(toks) == Cardinality({i \in 1..Len(toks) : toks[i].bol})
TokenizeLine(pool) ==
    /\ ppst = "start" /\ NumLines(ppsrc) < MaxLines
    /\ \E i \in 1..Len(pool) : ppsrc' = ppsrc \o pool[i]
    /\ UNCHANGED <<ppin, ppout, macros, cond_incl, ppst, pperr, pplast, pphist,
                   notpp>>

\* preprocess(tok): init_macros() puts the predefined macros in front of
\* the list once more; preprocess2(tok) is entered on the tokens of the
\* source file, which end with TK_EOF
Preprocess ==
    /\ ppst = "start"
    /\ ppsrc' = Append(ppsrc, EOFTok) /\ ppin' = ppsrc'
    /\ macros' = init_macros \o macros /\ ppst' = "run"
    /\ UNCHANGED <<ppout, cond_incl, pperr, pplast, pphist, notpp>>

\* Lines for conditional-inclusion chains.
GroupPool == <<
    Line(<<"#", "define", "X", "1">>, {2}),
    Line(<<"X">>, {}),
    Line(<<"#", "if", "X">>, {2}),
    Line(<<"#", "ifdef", "X">>, {2}),
    Line(<<"#", "ifndef", "X">>, {2}),
    Line(<<"#", "elif", "X">>, {2}),
    Line(<<"#", "elif", "__711cc__">>, {2}),
    Line(<<"#", "else">>, {2}),
    Line(<<"#", "endif">>, {2}),
    Line(<<"#", "error">>, {2}) >>

MaxGroupLines == 6  \* lines of a source file of chains
MaxNest == 2        \* conditionals open at once in such a file

\* The lines of a token list: each starts at a token with at_bol.
RECURSIVE SrcLines(_)
SrcLines(toks) ==
    IF toks = <<>> THEN <<>>
    ELSE LET starts == {i \in 2..Len(toks) : toks[i].bol}
             n == IF starts = {} THEN Len(toks) + 1
                  ELSE CHOOSE i \in starts : \A j \in starts : i <= j
         IN  <<SubSeq(toks, 1, n - 1)>> \o SrcLines(SubSeq(toks, n, Len(toks)))

\* The directive of a line ("" for a text line).
DirectiveOf(line) ==
    IF line[1].t = "#" /\ Len(line) > 1 THEN line[2].t ELSE ""

\* The conditionals open after the lines from the k-th on, innermost
\* last: "then" before the #else of the chain, "else" after it.
RECURSIVE OpenChains(_, _, _)
OpenChains(lines, k, open) ==
    IF k > Len(lines) THEN open
    ELSE LET d == DirectiveOf(lines[k])
             up == SubSeq(open, 1, Len(open) - 1)
         IN  OpenChains(lines, k + 1,
               CASE d \in {"if", "ifdef", "ifndef"} -> Append(open, "then")
                 [] d = "else" -> Append(up, "else")
                 [] d = "endif" -> up
                 [] OTHER -> open)

\* The tokenizer hands over a file whose conditional directives nest
\* properly, line by line.
TokenizeChain ==
    /\ ppst = "start" /\ NumLines(ppsrc) < MaxGroupLines
    /\ \E i \in 1..Len(GroupPool) :
         LET d == DirectiveOf(GroupPool[i])
             open == OpenChains(SrcLines(ppsrc), 1, <<>>)
         IN  /\ d \in {"if", "ifdef", "ifndef"} => Len(open) < MaxNest
             /\ d \in {"elif", "else"} =>
                   open # <<>> /\ open[Len(open)] = "then"
             /\ d = "endif" => open # <<>>
             /\ ppsrc' = ppsrc \o GroupPool[i]
    /\ UNCHANGED <<ppin, ppout, macros, cond_incl, ppst, pperr, pplast, pphist,
                   notpp>>

NextGroup ==
    \/ TokenizeChain \/ Preprocess \/ ExpandMacro \/ PassToken \/ Define
    \/ If \/ Ifdef \/ Ifndef \/ Elif \/ Else \/ Endif \/ ErrorDirective
    \/ PPFinish

\* Lines for #include with a macro; the header holds one line.
IncludePool == <<
    Line(<<"#", "define", "X", "\"f.h\"">>, {2}),
    Line(<<"#", "include", "X">>, {2}),
    Line(<<"#", "ifdef", "X">>, {2}),
    Line(<<"#", "endif">>, {2}),
    Line(<<"#", "undef", "__711cc__">>, {2}),
    Line(<<"__711cc__">>, {}) >>
HeaderFile == Line(<<"included">>, {})

\* #include X (read_include_path, pattern 3): preprocess() is called on a
\* copy of the line -- it calls init_macros(), runs preprocess2() and stops
\* with "unterminated conditional directive" if cond_incl is not empty --
\* and read_include_path() is called on the result.  A string names the
\* header, whose tokens are put in front of the rest of the file; on an
\* identifier read_include_path() takes pattern 3 again, without end.
IncludeMacro ==
    /\ PPDirective("include") /\ IsIdent(ppin[3].t)
    /\ LET cl == copy_line(PPRest(3))
           ms == init_macros \o macros
           r == preprocess2(cl.line, ms, PPFuel)
       IN  IF r.res # "ok" THEN PPStop(r.res, "macro arguments")
           ELSE IF unterminated(cond_incl)
           THEN PPStop("error", "unterminated conditional directive")
           ELSE IF Head(r.toks).t = "\"f.h\""
           THEN PPStep(HeaderFile \o cl.rest, ppout, ms, cond_incl,
                       PPLast("include", ppin[3], <<>>, NoExpansion), pphist)
           ELSE IF IsIdent(Head(r.toks).t) THEN PPStop("hang", "#include")
           ELSE PPStop("error", "expected a filename")

NextIncludeMacro ==
    \/ TokenizeLine(IncludePool) \/ Preprocess \/ ExpandMacro \/ PassToken
    \/ Define \/ Undef \/ Ifdef \/ Endif \/ IncludeMacro \/ PPFinish

\* Lines with an extra token after the directive.
TrailPool == <<
    Line(<<"#", "define", "X", "1">>, {2}),
    Line(<<"#", "include", "\"f.h\"", "foo">>, {2}),
    Line(<<"#", "undef", "X", "foo">>, {2}),
    Line(<<"#", "ifdef", "X", "foo">>, {2}),
    Line(<<"#", "ifndef", "X", "foo">>, {2}),
    Line(<<"#", "else", "foo">>, {2}),
    Line(<<"#", "endif", "foo">>, {2}),
    Line(<<"x">>, {}) >>
TrailingDirectives == {"include", "undef", "ifdef", "ifndef", "else", "endif"}

\* #include "f.h" (read_include_path, pattern 1): *rest =
\* skip_line(tok->next); the tokens of the header are put in front of the
\* rest of the file.
IncludeFile ==
    /\ PPDirective("include") /\ ppin[3].t = "\"f.h\""
    /\ PPStep(HeaderFile \o skip_line(PPRest(4)), ppout, macros, cond_incl,
              PPLast("include", ppin[3], <<>>, NoExpansion), pphist)

NextTrail ==
    \/ TokenizeLine(TrailPool) \/ Preprocess \/ PassToken \/ Define
    \/ IncludeFile \/ Undef \/ Ifdef \/ Ifndef \/ Else \/ Endif \/ PPFinish

NextMacro ==
    \/ TokenizeLine(MacroPool) \/ Preprocess \/ ExpandMacro \/ PassToken \/ Define \/ Undef \/ PPFinish

NextCond ==
    \/ TokenizeLine(CondPool) \/ Preprocess \/ ExpandMacro \/ PassToken \/ Define \/ If \/ Ifdef \/ Ifndef \/ Elif
    \/ Else \/ Endif \/ ErrorDirective \/ NullDirective \/ InvalidDirective
    \/ PPFinish

(***************************************************************************)
(*              type.c, parse.c : types and struct layout                  *)
(***************************************************************************)

\* Bound of the explored declarations.
MaxMembers == 3     \* members of one struct or union
MaxStr == 4         \* elements of an array of char

\* struct Type: base is <<>> or <<the pointee / element type>>, members is
\* the Member list of a struct or union.
Type(kind, size, align, base, array_len, members) ==
    [kind |-> kind, size |-> size, align |-> align, base |-> base,
     array_len |-> array_len, members |-> members]

ty_char == Type("TY_CHAR", 1, 1, <<>>, 0, <<>>)
ty_int == Type("TY_INT", 4, 4, <<>>, 0, <<>>)
pointer_to(base) == Type("TY_PTR", 8, 8, <<base>>, 0, <<>>)
array_of(base, len) ==
    Type("TY_ARRAY", base.size * len, base.align, <<base>>, len, <<>>)

\* A fresh struct type: no members, size 0, alignment 1.
struct_type == Type("TY_STRUCT", 0, 1, <<>>, 0, <<>>)

\* A rounding that leaves n where it is.
align_none(n, align) == n

\* a / b of C for b > 0: the quotient is truncated towards zero.
cdiv(a, b) == IF a >= 0 \/ a % b = 0 THEN a \div b ELSE (a \div b) + 1

\* A rounding that goes to the multiple below.
align_below(n, align) == (cdiv(n, align) - 1) * align

\* Round n up to the nearest multiple of align.
align_to(n, align) == cdiv(n + align - 1, align) * align

\* Round n down to the nearest multiple of align.
align_down(n, align) == align_to(n - align + 1, align)

\* struct Member as struct_members() leaves it: offset and bit_offset are
\* still zero.
Member(ty, align, is_bitfield, bit_width) ==
    [ty |-> ty, align |-> align, is_bitfield |-> is_bitfield,
     bit_width |-> bit_width, offset |-> 0, bit_offset |-> 0]

\* The member declarations offered to struct_members(): the declared type,
\* the _Alignas value (0 = none) and the bit-field width (-1 = not a
\* bit-field).
MemberDecls ==
    {[ty |-> ty_char, attr_align |-> 0, bit_width |-> -1],
     [ty |-> ty_char, attr_align |-> 16, bit_width |-> -1],
     [ty |-> ty_int, attr_align |-> 0, bit_width |-> -1],
     [ty |-> ty_int, attr_align |-> 0, bit_width |-> 3],
     [ty |-> ty_int, attr_align |-> 0, bit_width |-> 0],
     [ty |-> pointer_to(ty_char), attr_align |-> 0, bit_width |-> -1],
     [ty |-> pointer_to(ty_char), attr_align |-> 1, bit_width |-> -1],
     [ty |-> array_of(pointer_to(ty_char), 2), attr_align |-> 0,
      bit_width |-> -1]}

\* struct_decl's loop over the members still to be placed, then the size.
RECURSIVE struct_decl_loop(_, _, _)
struct_decl_loop(ty, rest, bits) ==
    IF rest = <<>>
    THEN [ty EXCEPT !.size = align_to(bits, ty.align * 8) \div 8]
    ELSE
      LET mem == Head(rest)
          sz == mem.ty.size
          zero == mem.is_bitfield /\ mem.bit_width = 0
          at == IF zero THEN align_to(bits, sz * 8)
                ELSE IF mem.is_bitfield
                THEN IF bits \div (sz * 8)
                        # (bits + mem.bit_width - 1) \div (sz * 8)
                     THEN align_to(bits, sz * 8)
                     ELSE bits
                ELSE align_to(bits, mem.align * 8)
          placed == IF zero THEN mem
                    ELSE IF mem.is_bitfield
                    THEN [mem EXCEPT !.offset = align_down(at \div 8, sz),
                                     !.bit_offset = at % (sz * 8)]
                    ELSE [mem EXCEPT !.offset = at \div 8]
          next == IF zero THEN at
                  ELSE IF mem.is_bitfield THEN at + mem.bit_width
                  ELSE at + sz * 8
      IN struct_decl_loop(
             [ty EXCEPT !.members = Append(@, placed),
                        !.align = IF @ < mem.align THEN mem.align ELSE @],
             Tail(rest), next)

\* union_decl's loop, then the size; offsets stay zero.
RECURSIVE union_decl_loop(_, _)
union_decl_loop(ty, rest) ==
    IF rest = <<>>
    THEN [ty EXCEPT !.size = align_to(ty.size, ty.align)]
    ELSE
      LET mem == Head(rest)
      IN union_decl_loop(
             [ty EXCEPT !.members = Append(@, mem),
                        !.align = IF @ < mem.align THEN mem.align ELSE @,
                        !.size = IF @ < mem.ty.size THEN mem.ty.size ELSE @],
             Tail(rest))

\* struct_members(): one more member is parsed.
StructMember ==
    /\ dcst = "members"
    /\ Len(mems) < MaxMembers
    /\ \E d \in MemberDecls :
          mems' = Append(mems,
              Member(d.ty,
                     IF d.attr_align # 0 THEN d.attr_align ELSE d.ty.align,
                     d.bit_width >= 0,
                     IF d.bit_width >= 0 THEN d.bit_width ELSE 0))
    /\ UNCHANGED <<tagty, declby, gvar, ginit, asmout, dcst, notdc>>

\* struct_decl(): "}" ends the member list and the struct is laid out.
StructDecl ==
    /\ dcst = "members"
    /\ tagty' = struct_decl_loop(struct_type, mems, 0)
    /\ declby' = "struct"
    /\ dcst' = "declared"
    /\ UNCHANGED <<mems, gvar, ginit, asmout, notdc>>

\* union_decl(): "}" ends the member list and the union is laid out.
UnionDecl ==
    /\ dcst = "members"
    /\ tagty' = union_decl_loop(struct_type, mems)
    /\ declby' = "union"
    /\ dcst' = "declared"
    /\ UNCHANGED <<mems, gvar, ginit, asmout, notdc>>

(***************************************************************************)
(*        parse.c : global initializers;  codegen.c : emit_data            *)
(***************************************************************************)

\* struct Node: kids is <<>>, <<lhs>> or <<lhs, rhs>>; var is <<the Var of an
\* ND_VAR (name and type)>>, <<>> otherwise.
Node(kind, var, val, kids) ==
    [kind |-> kind, var |-> var, val |-> val, kids |-> kids]

\* The initializer expressions offered for a pointer, by their source text,
\* as the parser builds them (new_add and new_sub scale the number by the
\* pointee size), with  char g17[7]  and  int g24.
PtrExprs ==
    LET num(v) == Node("ND_NUM", <<>>, v, <<>>)
        g17 == Node("ND_VAR", <<[name |-> "g17", ty |-> array_of(ty_char, 7)]>>,
                    0, <<>>)
        g24 == Node("ND_VAR", <<[name |-> "g24", ty |-> ty_int]>>, 0, <<>>)
    IN ("0" :> num(0))
       @@ ("g17 + 3" :>
             Node("ND_ADD", <<>>, 0,
                  <<g17, Node("ND_MUL", <<>>, 0, <<num(3), num(1)>>)>>))
       @@ ("&g24 - 1" :>
             Node("ND_SUB", <<>>, 0,
                  <<Node("ND_ADDR", <<>>, 0, <<g24>>),
                    Node("ND_MUL", <<>>, 0, <<num(1), num(4)>>)>>))
       @@ ("g24" :> g24)

\* The initializer expressions offered for a char, an int or a bit-field.
NumExprs == {Node("ND_NUM", <<>>, 5, <<>>), Node("ND_NUM", <<>>, -1, <<>>)}

\* The outcome of evaluating a constant expression: ok is FALSE when
\* error_tok() ended the compilation; var is <<>> for a NULL Var pointer.
Ev(ok, val, var) == [ok |-> ok, val |-> val, var |-> var]

\* eval(), on the operators of the offered expressions.
RECURSIVE eval(_)
eval(node) ==
    IF node.kind \in {"ND_ADD", "ND_SUB", "ND_MUL"}
    THEN With(eval(node.kids[1]), LAMBDA l :
         With(eval(node.kids[2]), LAMBDA r :
           Ev(l.ok /\ r.ok,
              CASE node.kind = "ND_ADD" -> l.val + r.val
                [] node.kind = "ND_SUB" -> l.val - r.val
                [] OTHER -> l.val * r.val,
              <<>>)))
    ELSE IF node.kind = "ND_NUM" THEN Ev(TRUE, node.val, <<>>)
    ELSE Ev(FALSE, 0, <<>>)      \* "not a constant expression"

RECURSIVE eval_addr(_)
RECURSIVE eval_rval(_)

\* eval_addr(): the value and the Var stored through *var.
eval_addr(node) ==
    IF node.kind \in {"ND_ADD", "ND_SUB"}
    THEN With(eval_addr(node.kids[1]), LAMBDA l :
         With(eval(node.kids[2]), LAMBDA r :
           Ev(l.ok /\ r.ok,
              IF node.kind = "ND_ADD" THEN l.val + r.val ELSE l.val - r.val,
              l.var)))
    ELSE IF node.kind = "ND_ADDR" THEN eval_rval(node.kids[1])
    ELSE IF node.kind = "ND_VAR"
    THEN IF node.var[1].ty.kind \notin {"TY_ARRAY", "TY_FUNC"}
         THEN Ev(FALSE, 0, <<>>)  \* "invalid initializer"
         ELSE Ev(TRUE, 0, node.var)
    ELSE IF node.kind = "ND_NUM" THEN Ev(TRUE, node.val, <<>>)
    ELSE Ev(FALSE, 0, <<>>)      \* "not a constant expression"

\* eval_rval(): every offered variable is a global.
eval_rval(node) ==
    IF node.kind = "ND_VAR" THEN Ev(TRUE, 0, node.var)
    ELSE IF node.kind = "ND_DEREF" THEN eval_addr(node.kids[1])
    ELSE Ev(FALSE, 0, <<>>)      \* "invalid initializer"

\* struct Initializer: expr is <<>> or <<the leaf's expression>>; children
\* holds the non-NULL entries, which are always the first ones.
new_init(ty, len, expr) ==
    [ty |-> ty, len |-> len, expr |-> expr, children |-> <<>>]

\* A TK_STR token: str holds the characters of the literal and the
\* terminating NUL, ty is char[number of characters with the NUL].
StrTok(str) == [str |-> str, ty |-> array_of(ty_char, Len(str))]

\* The string literals "", "ab" and "abcd".
StrToks == {StrTok(s) : s \in {<<0>>, <<97, 98, 0>>, <<97, 98, 99, 100, 0>>}}

\* A string initializer that takes the first character only.
string_initializer_one(ty, tok) ==
    [new_init(ty, ty.array_len, <<>>) EXCEPT !.children =
        [i \in 1..1 |->
            new_init(ty.base[1], 0, <<Node("ND_NUM", <<>>, tok.str[i], <<>>)>>)]]

\* string_initializer(): one child per character, for the first
\* min(ty->array_len, tok->ty->array_len) elements; the other children
\* stay NULL.
string_initializer(ty, tok) ==
    With(IF ty.array_len < tok.ty.array_len
         THEN ty.array_len ELSE tok.ty.array_len, LAMBDA len :
      [new_init(ty, ty.array_len, <<>>) EXCEPT !.children =
        [i \in 1..len |->
            new_init(ty.base[1], 0,
                     <<Node("ND_NUM", <<>>, tok.str[i], <<>>)>>)]])

\* The trees initializer() can return for a type: the initializer list of
\* an array or a struct may stop after any element, and an array of char
\* may be given a string literal.
RECURSIVE Initializers(_)
RECURSIVE ChildLists(_)
Initializers(ty) ==
    IF ty.kind = "TY_ARRAY"
    THEN {[new_init(ty, ty.array_len, <<>>) EXCEPT !.children = c] :
            c \in ChildLists([i \in 1..ty.array_len |-> ty.base[1]])}
         \cup (IF ty.base[1].kind = "TY_CHAR"
               THEN {string_initializer(ty, tok) : tok \in StrToks}
               ELSE {})
    ELSE IF ty.kind = "TY_STRUCT"
    THEN {[new_init(ty, Len(ty.members), <<>>) EXCEPT !.children = c] :
            c \in ChildLists([i \in 1..Len(ty.members) |-> ty.members[i].ty])}
    ELSE {new_init(ty, 0, <<e>>) :
            e \in IF ty.kind = "TY_PTR"
                  THEN {PtrExprs[t] : t \in DOMAIN PtrExprs}
                  ELSE NumExprs}

ChildLists(tys) ==
    IF tys = <<>> THEN {<<>>}
    ELSE {<<>>} \cup {<<c>> \o r : c \in Initializers(Head(tys)),
                                  r \in ChildLists(Tail(tys))}

\* read_buf(buf + loc, sz): the little-endian signed integer of sz bytes.
RECURSIVE read_buf(_, _, _)
read_buf(buf, loc, sz) ==
    IF sz = 1 THEN buf[loc + 1]
    ELSE (buf[loc + 1] % 256) + 256 * read_buf(buf, loc + 1, sz - 1)

\* write_buf(buf + loc, val, sz): the low sz bytes of val, little-endian,
\* each stored as a (signed) char.
RECURSIVE write_buf(_, _, _, _)
write_buf(buf, loc, val, sz) ==
    IF sz = 0 THEN buf
    ELSE write_buf([buf EXCEPT ![loc + 1] = IF val % 256 >= 128
                                            THEN (val % 256) - 256
                                            ELSE val % 256],
                   loc + 1, val \div 256, sz - 1)

\* a | b on two's-complement integers.
RECURSIVE BitOr(_, _)
BitOr(a, b) ==
    IF a = 0 THEN b
    ELSE IF b = 0 THEN a
    ELSE IF a = -1 \/ b = -1 THEN -1
    ELSE (IF a % 2 = 1 \/ b % 2 = 1 THEN 1 ELSE 0)
         + 2 * BitOr(a \div 2, b \div 2)

\* write_gvar_data(cur, init, ty, buf, offset).  w carries buf, the list of
\* struct Relocation that ends at cur, and ok, which is FALSE once
\* error_tok() has ended the compilation.
RECURSIVE write_gvar_data(_, _, _, _)
RECURSIVE write_children(_, _, _, _, _)
write_gvar_data(w, init, ty, offset) ==
    IF ~w.ok THEN w
    ELSE IF ty.kind \in {"TY_ARRAY", "TY_STRUCT"}
    THEN write_children(w, init, ty, offset, 1)
    ELSE IF ty.kind = "TY_PTR"
    THEN With(eval_addr(init.expr[1]), LAMBDA a :
           IF ~a.ok THEN [w EXCEPT !.ok = FALSE]
           ELSE IF a.var = <<>>
           THEN [w EXCEPT !.buf = write_buf(@, offset, a.val, ty.size)]
           ELSE [w EXCEPT !.rel =
                    Append(@, [offset |-> offset, label |-> a.var[1].name,
                               addend |-> a.val])])
    ELSE With(eval(init.expr[1]), LAMBDA e :
           IF ~e.ok THEN [w EXCEPT !.ok = FALSE]
           ELSE [w EXCEPT !.buf = write_buf(@, offset, e.val, ty.size)])

\* The loops of write_gvar_data over the elements of an array and over the
\* members of a struct, from the i-th on.
write_children(w, init, ty, offset, i) ==
    IF ~w.ok \/ i > init.len THEN w
    ELSE IF i > Len(init.children)
    THEN write_children(w, init, ty, offset, i + 1)
    ELSE IF ty.kind = "TY_ARRAY"
    THEN write_children(
             write_gvar_data(w, init.children[i], ty.base[1],
                             offset + ty.base[1].size * (i - 1)),
             init, ty, offset, i + 1)
    ELSE With(ty.members[i], LAMBDA mem :
           IF mem.is_bitfield
           THEN With(eval(init.children[i].expr[1]), LAMBDA e :
                  IF ~e.ok THEN [w EXCEPT !.ok = FALSE]
                  ELSE write_children(
                         [w EXCEPT !.buf = write_buf(@, offset + mem.offset,
                             BitOr(read_buf(@, offset + mem.offset,
                                            mem.ty.size),
                                   (e.val % (2 ^ mem.bit_width))
                                   * (2 ^ mem.bit_offset)),
                             mem.ty.size)],
                         init, ty, offset, i + 1))
           ELSE write_children(
                  write_gvar_data(w, init.children[i], mem.ty,
                                  offset + mem.offset),
                  init, ty, offset, i + 1))

\* struct Var, the fields of a global that emit_data reads.
Var(ty, init_data, rel) == [ty |-> ty, init_data |-> init_data, rel |-> rel]

\* The types a global is declared with: the struct or union just declared
\* and an array of it, or a pointer and an array of pointers.
VarTypes ==
    IF declby = "none"
    THEN {pointer_to(ty_char), array_of(pointer_to(ty_char), 3)}
         \cup {array_of(ty_char, n) : n \in 2..MaxStr}
    ELSE {tagty} \cup (IF Len(mems) <= 1 THEN {array_of(tagty, 2)} ELSE {})

\* gvar_initializer(): the initializer is parsed and serialised.
GvarInitializer ==
    /\ \/ dcst = "declared"
       \/ dcst = "members" /\ mems = <<>>
    /\ \E ty \in VarTypes : \E init \in Initializers(ty) :
       \E w \in {write_gvar_data(
                    [buf |-> [i \in 1..ty.size |-> 0], rel |-> <<>>,
                     ok |-> TRUE], init, ty, 0)} :
          /\ ginit' = init
          /\ IF w.ok
             THEN gvar' = Var(ty, w.buf, w.rel) /\ dcst' = "defined"
             ELSE gvar' = gvar /\ dcst' = "error"
    /\ UNCHANGED <<mems, tagty, declby, asmout, notdc>>

\* A data emitter that prints every byte of init_data.
RECURSIVE emit_bytes(_, _, _)
emit_bytes(var, rel, pos) ==
    IF pos < var.ty.size
    THEN <<[dir |-> ".byte", label |-> "", val |-> var.init_data[pos + 1]]>>
         \o emit_bytes(var, rel, pos + 1)
    ELSE <<>>

\* emit_data's while loop from pos on: the directives it prints.
RECURSIVE emit_data(_, _, _)
emit_data(var, rel, pos) ==
    IF pos < var.ty.size
    THEN IF rel # <<>> /\ Head(rel).offset = pos
         THEN <<[dir |-> ".quad", label |-> Head(rel).label,
                 val |-> Head(rel).addend]>>
              \o emit_data(var, Tail(rel), pos + 8)
         ELSE <<[dir |-> ".byte", label |-> "",
                 val |-> var.init_data[pos + 1]]>>
              \o emit_data(var, rel, pos + 1)
    ELSE <<>>

\* emit_data(): the global's label and data are printed.
EmitData ==
    /\ dcst = "defined"
    /\ asmout' = emit_data(gvar, gvar.rel, 0)
    /\ dcst' = "emitted"
    /\ UNCHANGED <<mems, tagty, declby, gvar, ginit, notdc>>

IdleDC ==
    /\ mems = <<>> /\ tagty = struct_type /\ declby = "none"
    /\ gvar = Var(ty_int, <<>>, <<>>) /\ ginit = new_init(ty_int, 0, <<>>)
    /\ asmout = <<>> /\ dcst = "idle"

\* Before the parser reads a declaration
InitDC ==
    /\ mems = <<>> /\ tagty = struct_type /\ declby = "none"
    /\ gvar = Var(ty_int, <<>>, <<>>) /\ ginit = new_init(ty_int, 0, <<>>)
    /\ asmout = <<>> /\ dcst = "members"

NextDecl ==
    \/ StructMember \/ StructDecl \/ UnionDecl \/ GvarInitializer
    \/ EmitData

(***************************************************************************)
(*                     tokenize.c : read_int_literal                       *)
(***************************************************************************)

\* Text is a sequence of characters; reading past its end gives the NUL.
CharAt(text, p) == IF p <= Len(text) THEN text[p] ELSE ""

\* The decimal spelling of the limits of int, unsigned, long and
\* unsigned long.
Limits ==
    [INT_MAX |-> <<"2", "1", "4", "7", "4", "8", "3", "6", "4", "7">>,
     UINT_MAX |-> <<"4", "2", "9", "4", "9", "6", "7", "2", "9", "5">>,
     LONG_MAX |-> <<"9", "2", "2", "3", "3", "7", "2", "0", "3", "6", "8", "5", "4", "7", "7", "5", "8", "0", "7">>,
     ULONG_MAX |-> <<"1", "8", "4", "4", "6", "7", "4", "4", "0", "7", "3", "7", "0", "9", "5", "5", "1", "6", "1", "5">>]

\* The numbers offered to the tokenizer: decimal, octal, binary and
\* hexadecimal digits at and around the limits, followed by a suffix.
Suffixes ==
    {<<>>,
     <<"u">>,
     <<"U">>,
     <<"l">>,
     <<"L">>,
     <<"l", "l">>,
     <<"L", "L">>,
     <<"u", "l">>,
     <<"L", "U">>,
     <<"u", "l", "l">>,
     <<"L", "L", "u">>,
     <<"u", "L", "l">>}

Literals ==
    {d \o s :
       d \in {Limits.INT_MAX, Limits.UINT_MAX, Limits.LONG_MAX,
              Limits.ULONG_MAX,
              <<"5">>,
              <<"2", "1", "4", "7", "4", "8", "3", "6", "4", "8">>,
              <<"4", "2", "9", "4", "9", "6", "7", "2", "9", "6">>,
              <<"9", "2", "2", "3", "3", "7", "2", "0", "3", "6", "8", "5", "4", "7", "7", "5", "8", "0", "8">>,
              <<"1", "8", "4", "4", "6", "7", "4", "4", "0", "7", "3", "7", "0", "9", "5", "5", "1", "6", "1", "6">>,
              <<"9", "9", "9", "9", "9", "9", "9", "9", "9", "9", "9", "9", "9", "9", "9", "9", "9", "9", "9", "9">>,
              <<"0">>,
              <<"0", "1", "7">>,
              <<"0", "7", "7", "7", "7", "7", "7", "7", "7", "7", "7", "7", "7", "7", "7", "7", "7", "7", "7", "7", "7", "7">>,
              <<"0", "1", "0", "0", "0", "0", "0", "0", "0", "0", "0", "0", "0", "0", "0", "0", "0", "0", "0", "0", "0", "0", "0">>,
              <<"0", "b", "1", "0", "1">>,
              <<"0", "B", "1">>,
              <<"0", "x", "7", "f", "f", "f", "f", "f", "f", "f">>,
              <<"0", "x", "8", "0", "0", "0", "0", "0", "0", "0">>,
              <<"0", "x", "F", "F", "F", "F", "F", "F", "F", "F">>,
              <<"0", "x", "1", "0", "0", "0", "0", "0", "0", "0", "0">>,
              <<"0", "x", "7", "f", "f", "f", "f", "f", "f", "f", "f", "f", "f", "f", "f", "f", "f", "f">>,
              <<"0", "X", "8", "0", "0", "0", "0", "0", "0", "0", "0", "0", "0", "0", "0", "0", "0", "0">>,
              <<"0", "x", "f", "f", "f", "f", "f", "f", "f", "f", "f", "f", "f", "f", "f", "f", "f", "f">>,
              <<"0", "x", "1", "0", "0", "0", "0", "0", "0", "0", "0", "0", "0", "0", "0", "0", "0", "0", "0">>},
       s \in Suffixes}

\* The value of a digit character, as strtoul() reads it.
DigitVal ==
    [c \in {"0", "1", "2", "3", "4", "5", "6", "7", "8", "9", "a", "b", "c",
            "d", "e", "f", "A", "B", "C", "D", "E", "F"} |->
       CASE c \in {"a", "A"} -> 10 [] c \in {"b", "B"} -> 11
         [] c \in {"c", "C"} -> 12 [] c \in {"d", "D"} -> 13
         [] c \in {"e", "E"} -> 14 [] c \in {"f", "F"} -> 15
         [] OTHER -> CHOOSE v \in 0..9 :
                        c = <<"0", "1", "2", "3", "4", "5", "6", "7", "8",
                              "9">>[v + 1]]

\* An unsigned long as four 16-bit limbs, least significant first.
\* acc * base + d, with the carry out of bit 63 kept as ovf.
MulAdd(acc, base, d) ==
    LET c1 == acc.val[1] * base + d
        c2 == acc.val[2] * base + c1 \div 65536
        c3 == acc.val[3] * base + c2 \div 65536
        c4 == acc.val[4] * base + c3 \div 65536
    IN [val |-> <<c1 % 65536, c2 % 65536, c3 % 65536, c4 % 65536>>,
        ovf |-> acc.ovf \/ c4 \div 65536 > 0]

\* strtoul(p, &p, base) from position p on: it reads the digits of the
\* base and returns ULONG_MAX when the value does not fit (errno = ERANGE).
\* (A second "0x" that strtoul itself would skip is not among the inputs.)
RECURSIVE strtoul(_, _, _, _)
strtoul(text, p, base, acc) ==
    IF CharAt(text, p) \in DOMAIN DigitVal
       /\ DigitVal[CharAt(text, p)] < base
    THEN strtoul(text, p + 1, base,
                 MulAdd(acc, base, DigitVal[CharAt(text, p)]))
    ELSE [val |-> IF acc.ovf THEN <<65535, 65535, 65535, 65535>>
                  ELSE acc.val,
          erange |-> acc.ovf, p |-> p]

\* A shift that reports no bit.
shifted_none(val, k) == FALSE

\* (val >> k) != 0 for the long val.
shifted(val, k) ==
    \E i \in 1..4 :
        /\ k < 16 * i
        /\ val[i] \div (2 ^ (IF k > 16 * (i - 1) THEN k - 16 * (i - 1)
                             ELSE 0)) # 0

\* The U, L and LL suffixes at p: how many characters, and l and u.
read_suffix(text, p) ==
    LET c1 == CharAt(text, p)
        c2 == CharAt(text, p + 1)
        c3 == CharAt(text, p + 2)
        low(c) == CASE c = "L" -> "l" [] c = "U" -> "u" [] OTHER -> c
    IN IF <<c1, c2, c3>> \in {<<"L", "L", "U">>, <<"L", "L", "u">>,
                              <<"l", "l", "U">>, <<"l", "l", "u">>,
                              <<"U", "L", "L">>, <<"U", "l", "l">>,
                              <<"u", "L", "L">>, <<"u", "l", "l">>}
       THEN [n |-> 3, l |-> TRUE, u |-> TRUE]
       ELSE IF <<low(c1), low(c2)>> \in {<<"l", "u">>, <<"u", "l">>}
       THEN [n |-> 2, l |-> TRUE, u |-> TRUE]
       ELSE IF <<c1, c2>> \in {<<"L", "L">>, <<"l", "l">>}
       THEN [n |-> 2, l |-> TRUE, u |-> FALSE]
       ELSE IF c1 \in {"L", "l"} THEN [n |-> 1, l |-> TRUE, u |-> FALSE]
       ELSE IF c1 \in {"U", "u"} THEN [n |-> 1, l |-> FALSE, u |-> TRUE]
       ELSE [n |-> 0, l |-> FALSE, u |-> FALSE]

\* "Infer a type."
infer_type(base, val, l, u) ==
    IF base = 10
    THEN IF l /\ u THEN "ty_ulong"
         ELSE IF l THEN "ty_long"
         ELSE IF u THEN (IF shifted(val, 32) THEN "ty_ulong" ELSE "ty_uint")
         ELSE (IF shifted(val, 31) THEN "ty_long" ELSE "ty_int")
    ELSE IF l /\ u THEN "ty_ulong"
         ELSE IF l THEN (IF shifted(val, 63) THEN "ty_ulong" ELSE "ty_long")
         ELSE IF u THEN (IF shifted(val, 32) THEN "ty_ulong" ELSE "ty_uint")
         ELSE IF shifted(val, 63) THEN "ty_ulong"
         ELSE IF shifted(val, 32) THEN "ty_long"
         ELSE IF shifted(val, 31) THEN "ty_uint"
         ELSE "ty_int"

\* read_int_literal's locals; st is "idle", "start", "base", "value" or
\* "token".
Lex(st, text, p, base, val, erange, ty) ==
    [st |-> st, text |-> text, p |-> p, base |-> base, val |-> val,
     erange |-> erange, ty |-> ty]

\* read_number() calls read_int_literal(), which reads the base prefix.
ReadBase ==
    /\ lex.st = "start"
    /\ \E text \in Literals :
       \E c \in {<<CharAt(text, 1), CharAt(text, 2), CharAt(text, 3)>>} :
          lex' = IF c[1] = "0" /\ c[2] \in {"x", "X"}
                    /\ c[3] \in DOMAIN DigitVal
                 THEN Lex("base", text, 3, 16, lex.val, FALSE, "")
                 ELSE IF c[1] = "0" /\ c[2] \in {"b", "B"}
                         /\ c[3] \in {"0", "1"}
                 THEN Lex("base", text, 3, 2, lex.val, FALSE, "")
                 ELSE IF c[1] = "0"
                 THEN Lex("base", text, 1, 8, lex.val, FALSE, "")
                 ELSE Lex("base", text, 1, 10, lex.val, FALSE, "")
    /\ UNCHANGED notlex

\* long val = strtoul(p, &p, base);
Strtoul ==
    /\ lex.st = "base"
    /\ \E r \in {strtoul(lex.text, lex.p, lex.base,
                         [val |-> <<0, 0, 0, 0>>, ovf |-> FALSE])} :
          lex' = Lex("value", lex.text, r.p, lex.base, r.val, r.erange, "")
    /\ UNCHANGED notlex

\* The suffix is read, the type inferred and the TK_NUM token made; p - 1 is
\* the token's length.
NewNumToken ==
    /\ lex.st = "value"
    /\ \E s \in {read_suffix(lex.text, lex.p)} :
          lex' = Lex("token", lex.text, lex.p + s.n, lex.base, lex.val,
                     lex.erange, infer_type(lex.base, lex.val, s.l, s.u))
    /\ UNCHANGED notlex

IdleLex == lex = Lex("idle", <<>>, 1, 10, <<0, 0, 0, 0>>, FALSE, "")

\* The tokenizer stands before a number.
InitLex == lex = Lex("start", <<>>, 1, 10, <<0, 0, 0, 0>>, FALSE, "")

NextLex == ReadBase \/ Strtoul \/ NewNumToken

(***************************************************************************)
(*                 parse.c : struct tags and their types                   *)
(***************************************************************************)

MaxTypes == 3       \* Type objects allocated by struct_type()
MaxTagDepth == 2    \* nesting of blocks while tags are declared

\* The tags of the struct declarations.
Tags == {"T", "U"}

\* The bodies of the struct declarations: <<>> when no "{" follows the tag,
\* otherwise <<the list struct_members() returns>>.
Bodies ==
    {<<>>, << <<>> >>, << <<Member(ty_char, 1, FALSE, 0)>> >>,
     << <<Member(ty_char, 1, FALSE, 0), Member(ty_int, 4, FALSE, 0)>> >>}

\* heap holds the Type objects struct_type() has allocated, a Type pointer is
\* an index into it; tags is tag_scope with TagScope.ty, depth is
\* scope_depth.  fwd and last are history: the pointers that declarations
\* without a body got for a tag they introduced, and the last declaration
\* with the type a declaration of its body alone produces.
TagState(heap, tags, depth, fwd, last) ==
    [heap |-> heap, tags |-> tags, depth |-> depth, fwd |-> fwd,
     last |-> last]
TagLast(op, name, ty, decl) == [op |-> op, name |-> name, ty |-> ty, decl |-> decl]

\* A struct_union_decl that registers every definition as a new type.
struct_union_decl_push(t, name, body) ==
    IF body = <<>>
    THEN With(find_scope(t.tags, name), LAMBDA sc :
           IF sc # <<>>
           THEN [heap |-> t.heap, tags |-> t.tags, ret |-> sc[1].ty,
                 fresh |-> FALSE]
           ELSE [heap |-> Append(t.heap, [struct_type EXCEPT !.size = -1]),
                 tags |-> <<[name |-> name, depth |-> t.depth,
                             ty |-> Len(t.heap) + 1]>> \o t.tags,
                 ret |-> Len(t.heap) + 1, fresh |-> TRUE])
    ELSE [heap |-> Append(t.heap, [struct_type EXCEPT !.members = body[1]]),
          tags |-> <<[name |-> name, depth |-> t.depth,
                      ty |-> Len(t.heap) + 1]>> \o t.tags,
          ret |-> Len(t.heap) + 1, fresh |-> TRUE]

\* struct_union_decl() for a declaration with a tag: the new heap and tag
\* scope, the Type pointer returned, and whether a new object was kept.
struct_union_decl(t, name, body) ==
    With(find_scope(t.tags, name), LAMBDA sc :
      IF body = <<>>
      THEN IF sc # <<>>
           THEN [heap |-> t.heap, tags |-> t.tags, ret |-> sc[1].ty,
                 fresh |-> FALSE]
           ELSE [heap |-> Append(t.heap, [struct_type EXCEPT !.size = -1]),
                 tags |-> <<[name |-> name, depth |-> t.depth,
                             ty |-> Len(t.heap) + 1]>> \o t.tags,
                 ret |-> Len(t.heap) + 1, fresh |-> TRUE]
      ELSE IF sc # <<>> /\ sc[1].depth = t.depth
           THEN [heap |-> [t.heap EXCEPT ![sc[1].ty] =
                              [struct_type EXCEPT !.members = body[1]]],
                 tags |-> t.tags, ret |-> sc[1].ty, fresh |-> FALSE]
           ELSE [heap |-> Append(t.heap,
                              [struct_type EXCEPT !.members = body[1]]),
                 tags |-> <<[name |-> name, depth |-> t.depth,
                             ty |-> Len(t.heap) + 1]>> \o t.tags,
                 ret |-> Len(t.heap) + 1, fresh |-> TRUE])

\* The loops of struct_decl (union = FALSE) and of union_decl over the
\* members of the object struct_union_decl returned.
decl_layout(ty, union) ==
    IF union THEN union_decl_loop([ty EXCEPT !.members = <<>>], ty.members)
    ELSE struct_decl_loop([ty EXCEPT !.members = <<>>], ty.members, 0)

\* The tag state after struct_decl() / union_decl() has read
\* `struct name body`.
TagDecl(name, body, union) ==
    With(struct_union_decl(tg, name, body), LAMBDA r :
      TagState([r.heap EXCEPT ![r.ret] = decl_layout(@, union)],
               r.tags, tg.depth,
               IF body = <<>> /\ r.fresh
               THEN tg.fwd \cup {[name |-> name, depth |-> tg.depth,
                                  ty |-> r.ret]}
               ELSE tg.fwd,
               TagLast(IF body = <<>> THEN "ref" ELSE "def", name, r.ret,
                       IF body = <<>> THEN struct_type
                       ELSE decl_layout(
                              [struct_type EXCEPT !.members = body[1]],
                              union))))

\* struct_decl() on a declaration with a tag.
TagStructDecl ==
    /\ \E name \in Tags, body \in Bodies :
       \E t \in {TagDecl(name, body, FALSE)} :
          Len(t.heap) <= MaxTypes /\ tg' = t
    /\ UNCHANGED nottg

\* union_decl() on a declaration with a tag.
TagUnionDecl ==
    /\ \E name \in Tags, body \in Bodies :
       \E t \in {TagDecl(name, body, TRUE)} :
          Len(t.heap) <= MaxTypes /\ tg' = t
    /\ UNCHANGED nottg

\* enter_scope() between declarations.
TagEnterScope ==
    /\ tg.depth < MaxTagDepth
    /\ tg' = [tg EXCEPT !.depth = @ + 1,
                        !.last = TagLast("enter_scope", "", 0, struct_type)]
    /\ UNCHANGED nottg

\* leave_scope() between declarations; the declarations of the block end
\* with it.
TagLeaveScope ==
    /\ tg.depth > 0
    /\ tg' = [tg EXCEPT !.depth = @ - 1,
                        !.tags = scope_pop(@, tg.depth - 1),
                        !.fwd = {f \in @ : f.depth <= tg.depth - 1},
                        !.last = TagLast("leave_scope", "", 0, struct_type)]
    /\ UNCHANGED nottg

IdleTag == tg = TagState(<<>>, <<>>, 0, {}, TagLast("idle", "", 0, struct_type))

\* The parser at the start of a translation unit.
InitTag == tg = TagState(<<>>, <<>>, 0, {}, TagLast("none", "", 0, struct_type))

NextTag == TagStructDecl \/ TagUnionDecl \/ TagEnterScope \/ TagLeaveScope


(***************************************************************************)
(*              main.c : -E, and tokenize.c on what it prints              *)
(***************************************************************************)

\* The characters of a token: a token of one character is that character.
Spell(t) ==
    CASE t = "define" -> <<"d", "e", "f", "i", "n", "e">>
      [] t = "undef" -> <<"u", "n", "d", "e", "f">>
      [] t = "__711cc__" -> <<"_", "_", "7", "1", "1", "c", "c", "_", "_">>
      [] t = "##" -> <<"#", "#">>
      [] OTHER -> <<t>>

\* The token texts of the source files given to -E, and "?" for any other
\* text the tokenizer reads.
ETokens == {"#", "define", "undef", "X", "x", "/", "*", "__711cc__", "1", "##"}
new_token(chars) ==
    IF \E t \in ETokens : Spell(t) = chars
    THEN CHOOSE t \in ETokens : Spell(t) = chars
    ELSE "?"

is_alpha(c) == c \in {"d", "e", "f", "i", "n", "u", "c", "X", "x", "_"}
isdigit(c) == c \in {"7", "1"}
is_alnum(c) == is_alpha(c) \/ isdigit(c)

\* print_tokens(): a newline before a token at the beginning of a line
\* unless it is the first token, a space before a token that has_space and
\* is not at the beginning of a line, the text of the token; a newline at
\* the end.
RECURSIVE print_tokens(_, _)
print_tokens(toks, line) ==
    IF IsEOF(Head(toks)) THEN <<"\n">>
    ELSE (IF line > 1 /\ Head(toks).bol THEN <<"\n">> ELSE <<>>)
         \o (IF Head(toks).sp /\ ~Head(toks).bol THEN <<" ">> ELSE <<>>)
         \o Spell(Head(toks).t)
         \o print_tokens(Tail(toks), line + 1)

\* The first position from p on where s starts, 0 if there is none (strstr).
RECURSIVE strstr(_, _, _)
strstr(text, p, s) ==
    IF p + Len(s) - 1 > Len(text) THEN 0
    ELSE IF SubSeq(text, p, p + Len(s) - 1) = s THEN p
    ELSE strstr(text, p + 1, s)

\* The end of the run of digits (of a number) or of is_alnum characters
\* (of an identifier) that starts at p.
RECURSIVE run_end(_, _, _)
run_end(text, p, number) ==
    IF p <= Len(text) /\ (IF number THEN isdigit(text[p])
                          ELSE is_alnum(text[p]))
    THEN run_end(text, p + 1, number) ELSE p

\* tokenize() with add_line_info(): the loop from p on.  bol and sp are
\* add_line_info's at_bol and has_space when it reaches p; every character
\* that is not white space, of a comment too, clears both.  The result is
\* <<>> after error_at().
RECURSIVE tokenize(_, _, _, _)
tokenize(text, p, bol, sp) ==
    IF p > Len(text) THEN <<EOFTok>>
    ELSE IF strstr(text, p, <<"/", "/">>) = p
    THEN tokenize(text, strstr(text, p, <<"\n">>), FALSE, FALSE)
    ELSE IF strstr(text, p, <<"/", "*">>) = p
    THEN With(strstr(text, p + 2, <<"*", "/">>), LAMBDA q :
           IF q = 0 THEN <<>> ELSE tokenize(text, q + 2, FALSE, FALSE))
    ELSE IF text[p] = "\n" THEN tokenize(text, p + 1, TRUE, sp)
    ELSE IF text[p] = " " THEN tokenize(text, p + 1, bol, TRUE)
    ELSE With(IF isdigit(text[p]) THEN run_end(text, p, TRUE)
              ELSE IF is_alpha(text[p]) THEN run_end(text, p, FALSE)
              ELSE IF strstr(text, p, <<"#", "#">>) = p THEN p + 2
              ELSE p + 1, LAMBDA q :
           With(tokenize(text, q, FALSE, FALSE), LAMBDA r :
              IF r = <<>> \/ (isdigit(text[p]) /\ q <= Len(text)
                              /\ is_alpha(text[q]))
              THEN <<>>
              ELSE <<Tok(new_token(SubSeq(text, p, q - 1)), bol, sp)>>
                   \o r))

\* The lines of the source files given to -E.
EPool == <<
    Line(<<"#", "define", "X", "/">>, {2}),
    Line(<<"#", "define", "X", "1">>, {2}),
    Line(<<"#", "undef", "__711cc__">>, {2}),
    Line(<<"x", "X", "*", "x">>, {3, 4}),
    Line(<<"x", "X", "x">>, {}),
    Line(<<"__711cc__", "x">>, {}) >>

PE(run, text) == [run |-> run, text |-> text]

\* main() with -E, after preprocess(): print_tokens(tok); exit(0).
PrintTokens ==
    /\ ppst = "done"
    /\ pe' = [pe EXCEPT !.text = Append(@, print_tokens(ppout, 1))]
    /\ ppst' = "printed"
    /\ UNCHANGED <<ppin, ppout, macros, cond_incl, pperr, ppsrc, pplast,
                   pphist, notpppe>>

\* The compiler is run with -E on the text the first run printed:
\* init_macros(), tokenize_file(), then preprocess() up to its call of
\* preprocess2().
SecondRun ==
    /\ ppst = "printed" /\ pe.run = 1
    /\ \E toks \in {tokenize(pe.text[1], 1, TRUE, FALSE)} :
          /\ pe' = [pe EXCEPT !.run = 2]
          /\ IF toks = <<>>
             THEN /\ ppst' = "error" /\ pperr' = "tokenize"
                  /\ UNCHANGED <<ppin, ppsrc, macros>>
             ELSE /\ ppst' = "run" /\ pperr' = pperr
                  /\ ppsrc' = toks /\ ppin' = toks
                  /\ macros' = init_macros \o init_macros
    /\ ppout' = <<>> /\ cond_incl' = <<>> /\ pphist' = <<>>
    /\ pplast' = PPLast("none", EOFTok, <<>>, NoExpansion)
    /\ UNCHANGED notpppe

IdlePE == pe = PE(0, <<>>)

\* The first run is about to read its source file.
InitPE == pe = PE(1, <<>>)

NextE ==
    \/ TokenizeLine(EPool) \/ Preprocess \/ ExpandMacro \/ PassToken
    \/ Define \/ Undef \/ PPFinish \/ PrintTokens \/ SecondRun


(***************************************************************************)
(*        main.c : the command line; preprocess.c : #include paths         *)
(***************************************************************************)

MaxArgs == 2        \* -I and -D options on the command line

\* struct of main()'s state.  st is "idle", "main", "paths", "args" or
\* "ready"; include_paths is char **include_paths; args is history: the -I
\* and -D options parse_args has read; fs is the set of files that exist,
\* each <<directory, name>> with "." the working directory; from is the
\* directory of the input file; inc is the last #include: its form, its
\* file name and the path read_include_path returned (<<>> after
\* error_tok).
Main(st, include_paths, args, fs, from, inc) ==
    [st |-> st, include_paths |-> include_paths, args |-> args, fs |-> fs,
     from |-> from, inc |-> inc]
NoInclude == [kind |-> "none", file |-> "", path |-> <<>>]

\* main(): init_macros().
MainInitMacros ==
    /\ mn.st = "main"
    /\ macros' = init_macros \o macros
    /\ mn' = [mn EXCEPT !.st = "paths"]
    /\ UNCHANGED <<ppin, ppout, cond_incl, ppst, pperr, ppsrc, pplast, pphist,
                   notppmn>>

\* add_default_include_paths(argv[0]): four calls of add_include_path.
add_default_include_paths(paths) ==
    paths \o <<"<argv0-dir>/include", "/usr/local/include",
               "/usr/include/x86_64-linux-gnu", "/usr/include">>

\* main(): add_default_include_paths(argv[0]).
AddDefaultIncludePaths ==
    /\ mn.st = "paths"
    /\ mn' = [mn EXCEPT !.st = "args",
                        !.include_paths = add_default_include_paths(@)]
    /\ UNCHANGED notmn

\* The directories given with -I.
IDirs == {"I1", "I2"}

\* parse_args(): -I<dir> is add_include_path(argv[i] + 2).
ArgI ==
    /\ mn.st = "args" /\ Len(mn.args) < MaxArgs
    /\ \E dir \in IDirs :
          mn' = [mn EXCEPT !.include_paths = Append(@, dir),
                           !.args = Append(@, [opt |-> "-I", val |-> <<dir>>])]
    /\ UNCHANGED notmn

\* The arguments given with -D, as characters.
DArgs ==
    {<<"X">>, <<"X", "=", "1">>, <<"X", "=", "x", " ", "x">>,
     <<"_", "_", "7", "1", "1", "c", "c", "_", "_", "=", "x">>}

\* define(str): the macro -D<str> defines; its name ends at the first '='
\* (strchr), its body is the rest, tokenized by define_macro.
define(str) ==
    With(strstr(str, 1, <<"=">>), LAMBDA eq :
      Macro(new_token(SubSeq(str, 1, IF eq = 0 THEN Len(str) ELSE eq - 1)),
            TRUE, <<>>,
            tokenize(IF eq = 0 THEN <<>> ELSE SubSeq(str, eq + 1, Len(str)),
                     1, TRUE, FALSE),
            FALSE))

\* parse_args(): -D<str> is define(argv[i] + 2).
ArgD ==
    /\ mn.st = "args" /\ Len(mn.args) < MaxArgs
    /\ \E str \in DArgs :
          /\ macros' = add_macro(macros, define(str))
          /\ mn' = [mn EXCEPT !.args = Append(@, [opt |-> "-D", val |-> str])]
    /\ UNCHANGED <<ppin, ppout, cond_incl, ppst, pperr, ppsrc, pplast, pphist,
                   notppmn>>

\* parse_args() reads input_path and returns; main() goes on to
\* tokenize_file().
ArgInput ==
    /\ mn.st = "args"
    /\ mn' = [mn EXCEPT !.st = "ready"]
    /\ ppst' = "start"
    /\ UNCHANGED <<ppin, ppout, macros, cond_incl, pperr, ppsrc, pplast,
                   pphist, notppmn>>

\* search_include_paths(filename): the first directory of the list in
\* which the file exists, <<>> after error_tok.
RECURSIVE search_include_paths(_, _, _)
search_include_paths(paths, fs, filename) ==
    IF paths = <<>> THEN <<>>
    ELSE IF <<Head(paths), filename>> \in fs THEN <<Head(paths), filename>>
    ELSE search_include_paths(Tail(paths), fs, filename)

\* read_include_path(): "file" is tried as it is written, which stat()
\* resolves in the working directory, then in the list; <file> only in
\* the list.
read_include_path(kind, paths, fs, filename) ==
    IF kind = "str" /\ <<".", filename>> \in fs THEN <<".", filename>>
    ELSE search_include_paths(paths, fs, filename)

\* preprocess2(): #include "f.h" or #include <f.h> in the input file.
Include ==
    /\ mn.st = "ready"
    /\ \E kind \in {"str", "angle"} :
          mn' = [mn EXCEPT !.inc =
                    [kind |-> kind, file |-> "f.h",
                     path |-> read_include_path(kind, mn.include_paths,
                                                mn.fs, "f.h")]]
    /\ UNCHANGED notmn

\* The files that may exist.
FileCands ==
    {<<d, "f.h">> : d \in {".", "src", "I1", "I2", "/usr/include"}}

IdleMain == mn = Main("idle", <<>>, <<>>, {}, ".", NoInclude)

\* main() is entered: any of the files exist, the input file is in the
\* working directory or in src.
InitMain ==
    \E fs \in SUBSET FileCands, from \in {".", "src"} :
       mn = Main("main", <<>>, <<>>, fs, from, NoInclude)

\* main() is entered, with no header files around.
InitMainD == mn = Main("main", <<>>, <<>>, {}, ".", NoInclude)

\* The preprocessor before main() has run.
InitPPMain ==
    /\ ppin = <<>> /\ ppout = <<>> /\ macros = <<>> /\ cond_incl = <<>>
    /\ ppst = "main" /\ pperr = "" /\ ppsrc = <<>> /\ pphist = <<>>
    /\ pplast = PPLast("none", EOFTok, <<>>, NoExpansion)

\* The lines of the source files compiled with -D.
DPool == <<
    Line(<<"X", "x">>, {}),
    Line(<<"__711cc__">>, {}),
    Line(<<"#", "ifdef", "X">>, {2}),
    Line(<<"#", "endif">>, {2}),
    Line(<<"#", "undef", "X">>, {2}) >>

NextDefine ==
    \/ MainInitMacros \/ AddDefaultIncludePaths \/ ArgD \/ ArgInput
    \/ TokenizeLine(DPool) \/ Preprocess \/ ExpandMacro \/ PassToken
    \/ Undef \/ Ifdef \/ Endif \/ PPFinish

NextInclude ==
    \/ MainInitMacros \/ AddDefaultIncludePaths \/ ArgI \/ ArgInput
    \/ Include


(***************************************************************************)
(*                          type.c : align_to                              *)
(***************************************************************************)

INT_MAX == 2147483647

\* The arguments align_to is called with.
AlignN == (-17 .. 40) \cup {INT_MAX - k : k \in 0 .. 7}
AlignA == {1, 2, 3, 4, 8, 16}

\* al.st is "idle", "args", "once", "twice" or "trap"; r is the value
\* align_to returned last, first the one of the first call.
Align(st, n, align, first, r) ==
    [st |-> st, n |-> n, align |-> align, first |-> first, r |-> r]

\* n + align - 1 in 32-bit two's complement when it exceeds INT_MAX.
wrapped_sum(n, align) == ((n - INT_MAX) + (align - 2)) - INT_MAX - 1

\* A call align_to(al.r, al.align).  The signed overflow of n + align - 1
\* is undefined: the build either wraps the sum or traps.
AlignTo ==
    /\ al.st \in {"args", "once"}
    /\ \E out \in IF al.r > INT_MAX - (al.align - 1)
                  THEN {<<"trap", 0>>,
                        <<"ret", cdiv(wrapped_sum(al.r, al.align), al.align)
                                 * al.align>>}
                  ELSE {<<"ret", align_to(al.r, al.align)>>} :
          al' = IF out[1] = "trap" THEN [al EXCEPT !.st = "trap"]
                ELSE [al EXCEPT !.st = IF @ = "args" THEN "once" ELSE "twice",
                                !.first = IF al.st = "args" THEN out[2] ELSE @,
                                !.r = out[2]]
    /\ UNCHANGED notal

IdleAlign == al = Align("idle", 0, 1, 0, 0)

\* align_to is about to be called with n and align.
InitAlign == \E n \in AlignN, a \in AlignA : al = Align("args", n, a, 0, n)

NextAlign == AlignTo


(***************************************************************************)
(*   parse.c : stmt ("switch", "case", "default")  codegen.c : ND_SWITCH   *)
(***************************************************************************)

MaxNodes == 7       \* statements of the parsed function body

\* A long is four 16-bit limbs, least significant first.  The constants
\* and controlling values offered: 0, 1 and 4294967296.
SwitchVals == {<<0, 0, 0, 0>>, <<1, 0, 0, 0>>, <<0, 0, 1, 0>>}

\* int val = const_expr(&tok, tok->next); ... node->val = val;
\* the long is converted to int and back to long.
int_val(v) ==
    LET s == IF v[2] >= 32768 THEN 65535 ELSE 0
    IN  <<v[1], v[2], s, s>>

\* new_node(kind, tok).  Nodes are numbered in the order of creation;
\* 0 is the null pointer.  kids is then / lhs / body.  History, which the
\* code does not keep: up, the statement the node is written in; src, the
\* constant of a case as written; dflt, whether the label is "default".
SwNode(kind, up) ==
    [kind |-> kind, val |-> <<0, 0, 0, 0>>, case_next |-> 0,
     default_case |-> 0, kids |-> <<>>, up |-> up,
     src |-> <<0, 0, 0, 0>>, dflt |-> FALSE]

\* The parser state: nodes; stack, the calls of stmt() that wait for the
\* statement being read (node, and for a switch its local sw);
\* current_switch.
\* The statement n has been read: each waiting stmt() stores it and
\* returns, up to the first block, which goes on reading.
RECURSIVE stmt_return(_, _, _, _)
stmt_return(nodes, stack, cs, n) ==
    IF stack = <<>>
    THEN [nodes |-> nodes, stack |-> stack, current_switch |-> cs,
          root |-> n]
    ELSE LET f == stack[Len(stack)]
             p == f.node
             rest == SubSeq(stack, 1, Len(stack) - 1)
             stored == [nodes EXCEPT ![p].kids = Append(@, n)]
         IN  CASE nodes[p].kind = "ND_BLOCK" ->
                    [nodes |-> stored, stack |-> stack,
                     current_switch |-> cs, root |-> 0]
               [] nodes[p].kind = "ND_SWITCH" ->
                    \* node->then = stmt(rest, tok); current_switch = sw;
                    stmt_return(stored, rest, f.sw, p)
               [] nodes[p].dflt ->
                    \* node->lhs = stmt(rest, tok);
                    \* current_switch->default_case = node;
                    stmt_return([stored EXCEPT ![cs].default_case = p],
                                rest, cs, p)
               [] OTHER ->
                    \* node->lhs = stmt(rest, tok);
                    \* node->case_next = current_switch->case_next;
                    \* current_switch->case_next = node;
                    stmt_return([stored EXCEPT
                                   ![p].case_next = nodes[cs].case_next,
                                   ![cs].case_next = p],
                                rest, cs, p)

\* The statement the node n is written in, for a new node.
SwUp == IF sw.stack = <<>> THEN 0 ELSE sw.stack[Len(sw.stack)].node

SwParsing == sw.st = "parse" /\ Len(sw.nodes) < MaxNodes

SwParsed(r) ==
    sw' = [sw EXCEPT !.nodes = r.nodes, !.stack = r.stack,
                     !.current_switch = r.current_switch, !.root = r.root,
                     !.st = IF r.root # 0 THEN "parsed" ELSE "parse"]

\* equal(tok, "switch"): the condition is read, current_switch is saved in
\* sw and set to the node, and the body is read.
StmtSwitch ==
    /\ SwParsing
    /\ LET n == Len(sw.nodes) + 1
       IN  sw' = [sw EXCEPT
                    !.nodes = Append(@, SwNode("ND_SWITCH", SwUp)),
                    !.stack = Append(@, [node |-> n,
                                         sw |-> sw.current_switch]),
                    !.current_switch = n]
    /\ UNCHANGED notsw

\* equal(tok, "case"): "stray case" outside a switch; the constant is
\* read into an int; the labelled statement is read.
StmtCase ==
    /\ SwParsing
    /\ \E v \in SwitchVals :
         IF sw.current_switch = 0
         THEN sw' = [sw EXCEPT !.st = "error"]
         ELSE LET n == Len(sw.nodes) + 1
              IN  sw' = [sw EXCEPT
                           !.nodes = Append(@, [SwNode("ND_CASE", SwUp)
                                                EXCEPT !.val = int_val(v),
                                                       !.src = v]),
                           !.stack = Append(@, [node |-> n, sw |-> 0])]
    /\ UNCHANGED notsw

\* equal(tok, "default")
StmtDefault ==
    /\ SwParsing
    /\ IF sw.current_switch = 0
       THEN sw' = [sw EXCEPT !.st = "error"]
       ELSE LET n == Len(sw.nodes) + 1
            IN  sw' = [sw EXCEPT
                         !.nodes = Append(@, [SwNode("ND_CASE", SwUp)
                                              EXCEPT !.dflt = TRUE]),
                         !.stack = Append(@, [node |-> n, sw |-> 0])]
    /\ UNCHANGED notsw

\* equal(tok, "{"): compound_stmt() reads statements up to the "}".
StmtBlock ==
    /\ SwParsing
    /\ LET n == Len(sw.nodes) + 1
       IN  sw' = [sw EXCEPT
                    !.nodes = Append(@, SwNode("ND_BLOCK", SwUp)),
                    !.stack = Append(@, [node |-> n, sw |-> 0])]
    /\ UNCHANGED notsw

\* the "}" of the block being read
StmtBlockEnd ==
    /\ sw.st = "parse" /\ sw.stack # <<>>
    /\ sw.nodes[SwUp].kind = "ND_BLOCK"
    /\ SwParsed(stmt_return(sw.nodes,
                            SubSeq(sw.stack, 1, Len(sw.stack) - 1),
                            sw.current_switch, SwUp))
    /\ UNCHANGED notsw

\* an expression statement
StmtExpr ==
    /\ SwParsing
    /\ SwParsed(stmt_return(Append(sw.nodes, SwNode("ND_EXPR_STMT", SwUp)),
                            sw.stack, sw.current_switch,
                            Len(sw.nodes) + 1))
    /\ UNCHANGED notsw

\* The nodes of the list that starts at n and is linked by case_next.
RECURSIVE case_list(_, _)
case_list(nodes, n) ==
    IF n = 0 THEN <<>> ELSE <<n>> \o case_list(nodes, nodes[n].case_next)

\* The instructions the emitter prints.  n is the node that printed it.
Ins(op, n, val, l) == [op |-> op, n |-> n, val |-> val, l |-> l]

\* The "for" loop of case ND_SWITCH over the cases, from the k-th on:
\* n->case_label = count(); cmp $val, reg(top - 1); je .L.case.N
RECURSIVE switch_cases(_, _, _, _, _)
switch_cases(nodes, n, cases, k, g) ==
    IF k > Len(cases) THEN g
    ELSE switch_cases(nodes, n, cases, k + 1,
           [g EXCEPT !.i = @ + 1,
                     !.case_label[cases[k]] = g.i,
                     !.code = Append(@, Ins("je", n,
                                            nodes[cases[k]].val, g.i))])

\* gen_stmt(node) for the statements of the parser above.  g is the
\* emitter's state: code, the text printed; i, count()'s static int;
\* case_label, the member of that name of every node.
RECURSIVE gen_switch_stmt(_, _, _)
RECURSIVE gen_body(_, _, _, _)
gen_body(nodes, kids, k, g) ==
    IF k > Len(kids) THEN g
    ELSE gen_body(nodes, kids, k + 1, gen_switch_stmt(nodes, kids[k], g))

gen_switch_stmt(nodes, n, g) ==
    CASE nodes[n].kind = "ND_EXPR_STMT" ->
           [g EXCEPT !.code = Append(@, Ins("expr", n, <<>>, 0))]
      [] nodes[n].kind = "ND_BLOCK" ->
           gen_body(nodes, nodes[n].kids, 1, g)
      [] nodes[n].kind = "ND_CASE" ->
           \* println(".L.case.%d:", node->case_label); gen_stmt(node->lhs);
           gen_body(nodes, nodes[n].kids, 1,
                    [g EXCEPT !.code = Append(@, Ins("case_label", n, <<>>,
                                                     g.case_label[n]))])
      [] OTHER ->
           LET c == g.i
               g1 == [g EXCEPT !.i = @ + 1, !.case_label[n] = c,
                               !.code = Append(@, Ins("cond", n, <<>>, 0))]
               g2 == switch_cases(nodes, n,
                                  case_list(nodes, nodes[n].case_next), 1, g1)
               d == nodes[n].default_case
               g3 == IF d # 0
                     THEN [g2 EXCEPT !.i = @ + 1, !.case_label[d] = g2.i,
                                     !.code = Append(@, Ins("jmp_case", n,
                                                            <<>>, g2.i))]
                     ELSE g2
               g4 == [g3 EXCEPT !.code = Append(@, Ins("jmp_break", n,
                                                       <<>>, c))]
               g5 == gen_body(nodes, nodes[n].kids, 1, g4)
           IN  [g5 EXCEPT !.code = Append(@, Ins("break_label", n, <<>>, c))]

\* codegen(): the statement the parser returned is emitted.
SwitchCodegen ==
    /\ sw.st = "parsed"
    /\ LET g == gen_switch_stmt(sw.nodes, sw.root,
                                [code |-> <<>>, i |-> 1,
                                 case_label |-> [n \in 1..Len(sw.nodes) |-> 0]])
       IN  sw' = [sw EXCEPT !.code = g.code, !.st = "run", !.pc = 1]
    /\ UNCHANGED notsw

\* Where the label of the name is in the text.
LabelAt(code, op, l) ==
    {p \in 1..Len(code) : code[p].op = op /\ code[p].l = l}

\* The processor runs one instruction of the emitted text.  "cond" leaves
\* the value of the controlling expression in the register; the jumps
\* record in jumped which switch left its dispatch code.
SwitchRun ==
    /\ sw.st = "run"
    /\ IF sw.pc > Len(sw.code) THEN sw' = [sw EXCEPT !.st = "done", !.jumped = 0]
       ELSE LET in == sw.code[sw.pc]
                jump(op) ==
                    LET ps == LabelAt(sw.code, op, in.l)
                    IN  IF Cardinality(ps) # 1
                        THEN sw' = [sw EXCEPT !.st = "asm_error"]
                        ELSE sw' = [sw EXCEPT !.pc = CHOOSE p \in ps : TRUE,
                                              !.jumped = in.n]
            IN  CASE in.op = "cond" ->
                       \E v \in SwitchVals :
                          sw' = [sw EXCEPT !.reg = v, !.pc = @ + 1,
                                           !.jumped = 0,
                                           !.evals[in.n] = @ + 1]
                  [] in.op = "je" /\ sw.reg = in.val -> jump("case_label")
                  [] in.op = "jmp_case" -> jump("case_label")
                  [] in.op = "jmp_break" -> jump("break_label")
                  [] OTHER -> sw' = [sw EXCEPT !.pc = @ + 1, !.jumped = 0]
    /\ UNCHANGED notsw

IdleSwitch ==
    sw = [st |-> "idle", nodes |-> <<>>, stack |-> <<>>, current_switch |-> 0,
          root |-> 0, code |-> <<>>, pc |-> 0, reg |-> <<0, 0, 0, 0>>,
          jumped |-> 0, evals |-> [n \in 1..MaxNodes |-> 0]]

InitSwitch ==
    sw = [st |-> "parse", nodes |-> <<>>, stack |-> <<>>, current_switch |-> 0,
          root |-> 0, code |-> <<>>, pc |-> 0, reg |-> <<0, 0, 0, 0>>,
          jumped |-> 0, evals |-> [n \in 1..MaxNodes |-> 0]]

NextSwitch ==
    \/ StmtSwitch \/ StmtCase \/ StmtDefault \/ StmtBlock \/ StmtBlockEnd
    \/ StmtExpr \/ SwitchCodegen \/ SwitchRun


(***************************************************************************)
(*        parse.c : assign, to_assign   codegen.c : the lowered tree       *)
(***************************************************************************)

\* The types add_type() gives to the operands below: "int", or "ptr" (a
\* pointer to int, base->size 4).
type_of(node) ==
    CASE node.kind = "ND_VAR" /\ node.var = "p" -> "ptr"
      [] node.kind = "ND_FUNCALL" -> "ptr"
      [] OTHER -> "int"

new_binary(kind, lhs, rhs) == Node(kind, "", 0, <<lhs, rhs>>)
new_unary(kind, expr) == Node(kind, "", 0, <<expr>>)
new_var_node(var) == Node("ND_VAR", var, 0, <<>>)
new_num(val) == Node("ND_NUM", "", val, <<>>)

\* new_add(lhs, rhs, tok): num + num; ptr + ptr is "invalid operands";
\* num + ptr becomes ptr + num; the number is scaled by base->size.
new_add(lhs, rhs) ==
    IF type_of(lhs) = "int" /\ type_of(rhs) = "int"
    THEN new_binary("ND_ADD", lhs, rhs)
    ELSE IF type_of(lhs) = "ptr" /\ type_of(rhs) = "ptr" THEN <<>>
    ELSE LET l == IF type_of(lhs) = "ptr" THEN lhs ELSE rhs
             r == IF type_of(lhs) = "ptr" THEN rhs ELSE lhs
         IN  new_binary("ND_ADD", l, new_binary("ND_MUL", r, new_num(4)))

\* new_sub(lhs, rhs, tok): num - num; ptr - num; ptr - ptr; else
\* "invalid operands".
new_sub(lhs, rhs) ==
    IF type_of(lhs) = "int" /\ type_of(rhs) = "int"
    THEN new_binary("ND_SUB", lhs, rhs)
    ELSE IF type_of(lhs) = "ptr" /\ type_of(rhs) = "int"
    THEN new_binary("ND_SUB", lhs, new_binary("ND_MUL", rhs, new_num(4)))
    ELSE IF type_of(lhs) = "ptr" /\ type_of(rhs) = "ptr"
    THEN new_binary("ND_DIV", new_binary("ND_SUB", lhs, rhs), new_num(4))
    ELSE <<>>

\* to_assign(binary): tmp = &A, *tmp = *tmp op B, with the fresh pointer
\* variable new_lvar("", pointer_to(binary->lhs->ty)).
to_assign(binary) ==
    LET expr1 == new_binary("ND_ASSIGN", new_var_node("tmp"),
                            new_unary("ND_ADDR", binary.kids[1]))
        expr2 == new_binary("ND_ASSIGN",
                   new_unary("ND_DEREF", new_var_node("tmp")),
                   new_binary(binary.kind,
                              new_unary("ND_DEREF", new_var_node("tmp")),
                              binary.kids[2]))
    IN  new_binary("ND_COMMA", expr1, expr2)

\* The compound operators of assign(), and the prefix ++ and -- of unary().
AssignOps ==
    [add |-> "ND_ADD", sub |-> "ND_SUB", mul |-> "ND_MUL", div |-> "ND_DIV",
     mod |-> "ND_MOD", and |-> "ND_BITAND", or |-> "ND_BITOR",
     xor |-> "ND_BITXOR", shl |-> "ND_SHL", shr |-> "ND_SHR",
     inc |-> "ND_ADD", dec |-> "ND_SUB"]

\* assign(): A op= B, and unary(): ++A, --A.
assign(op, A, B) ==
    LET rhs == IF op \in {"inc", "dec"} THEN new_num(1) ELSE B
    IN  CASE AssignOps[op] = "ND_ADD" -> to_assign(new_add(A, rhs))
          [] AssignOps[op] = "ND_SUB" -> to_assign(new_sub(A, rhs))
          [] OTHER -> to_assign(new_binary(AssignOps[op], A, rhs))

\* The frame and the data the expression runs on, by address: i (int),
\* s (a struct of the bit-fields b : 2 and c : 2 in one int), p (int *),
\* tmp, calls (how often next() was called), the array a[3].  next()
\* returns &a[calls] and counts the call.
AddrOf == [i |-> 0, s |-> 8, p |-> 16, tmp |-> 24, calls |-> 32, a |-> 100]
Members == [b |-> [bit_offset |-> 0, bit_width |-> 2],
            c |-> [bit_offset |-> 2, bit_width |-> 2]]

RECURSIVE bitwise(_, _, _)
bitwise(kind, a, b) ==
    IF a = 0 /\ b = 0 THEN 0
    ELSE (CASE kind = "ND_BITAND" -> IF a % 2 = 1 /\ b % 2 = 1 THEN 1 ELSE 0
            [] kind = "ND_BITOR" -> IF a % 2 = 1 \/ b % 2 = 1 THEN 1 ELSE 0
            [] OTHER -> IF a % 2 # b % 2 THEN 1 ELSE 0)
         + 2 * bitwise(kind, a \div 2, b \div 2)

\* The instruction of gen_expr's "Binary expressions" part on two values.
binary_op(kind, a, b) ==
    CASE kind = "ND_ADD" -> a + b
      [] kind = "ND_SUB" -> a - b
      [] kind = "ND_MUL" -> a * b
      [] kind = "ND_DIV" -> a \div b
      [] kind = "ND_MOD" -> a % b
      [] kind = "ND_SHL" -> a * 2 ^ b
      [] kind = "ND_SHR" -> a \div 2 ^ b
      [] OTHER -> bitwise(kind, a, b)

\* What the code emitted by gen_expr / gen_addr computes: [v, mem], the
\* value left in the register and the memory.
RECURSIVE run_expr(_, _)
RECURSIVE run_addr(_, _)
run_addr(node, mem) ==
    CASE node.kind = "ND_VAR" -> [v |-> AddrOf[node.var], mem |-> mem]
      [] node.kind = "ND_DEREF" -> run_expr(node.kids[1], mem)
      [] OTHER ->     \* ND_MEMBER: gen_addr(node->lhs); add $offset (0)
           run_addr(node.kids[1], mem)

run_expr(node, mem) ==
    CASE node.kind = "ND_NUM" -> [v |-> node.val, mem |-> mem]
      [] node.kind = "ND_VAR" -> [v |-> mem[AddrOf[node.var]], mem |-> mem]
      [] node.kind = "ND_ADDR" -> run_addr(node.kids[1], mem)
      [] node.kind = "ND_DEREF" ->
           LET p == run_expr(node.kids[1], mem)
           IN  [v |-> p.mem[p.v], mem |-> p.mem]
      [] node.kind = "ND_FUNCALL" ->
           [v |-> AddrOf.a + 4 * mem[AddrOf.calls],
            mem |-> [mem EXCEPT ![AddrOf.calls] = @ + 1]]
      [] node.kind = "ND_MEMBER" ->
           \* load; shl 64 - width - offset; shr 64 - width
           LET a == run_addr(node, mem)
               m == Members[node.var]
           IN  [v |-> (a.mem[a.v] \div 2 ^ m.bit_offset) % 2 ^ m.bit_width,
                mem |-> a.mem]
      [] node.kind = "ND_COMMA" ->
           run_expr(node.kids[2], run_expr(node.kids[1], mem).mem)
      [] node.kind = "ND_ASSIGN" ->
           \* gen_expr(node->rhs); gen_addr(node->lhs); [merge]; store
           LET r == run_expr(node.kids[2], mem)
               a == run_addr(node.kids[1], r.mem)
               lhs == node.kids[1]
               m == Members[lhs.var]
               v == IF lhs.kind = "ND_MEMBER"
                    THEN a.mem[a.v]
                         - ((a.mem[a.v] \div 2 ^ m.bit_offset) % 2 ^ m.bit_width)
                           * 2 ^ m.bit_offset
                         + (r.v % 2 ^ m.bit_width) * 2 ^ m.bit_offset
                    ELSE r.v
           IN  [v |-> v, mem |-> [a.mem EXCEPT ![a.v] = v]]
      [] OTHER ->
           LET l == run_expr(node.kids[1], mem)
               r == run_expr(node.kids[2], l.mem)
           IN  [v |-> binary_op(node.kind, l.v, r.v), mem |-> r.mem]

\* The lvalues A and the operands B offered to assign():  i, p, *next(),
\* s.b, s.c;  1, 2, 3 and i.
Lvalues ==
    {new_var_node("i"), new_var_node("p"),
     new_unary("ND_DEREF", Node("ND_FUNCALL", "next", 0, <<>>)),
     Node("ND_MEMBER", "b", 0, <<new_var_node("s")>>),
     Node("ND_MEMBER", "c", 0, <<new_var_node("s")>>)}
Operands == {new_num(1), new_num(2), new_num(3), new_var_node("i")}

CaNone == [st |-> "idle", op |-> "", A |-> <<>>, B |-> <<>>, tree |-> <<>>,
           mem0 |-> <<>>, mem |-> <<>>, v |-> 0]

IdleAssign == ca = CaNone

\* Before assign() reads "A op= B": the data the program will run on.
InitAssign ==
    \E op \in DOMAIN AssignOps, A \in Lvalues, B \in Operands,
       i \in {2, 7}, s \in 0..15 :
       \* the pointer takes part in + and - only
       /\ type_of(A) = "ptr" => AssignOps[op] \in {"ND_ADD", "ND_SUB"}
       /\ ca = [CaNone EXCEPT
                  !.st = "source", !.op = op, !.A = A, !.B = B,
                  !.mem0 = (0 :> i) @@ (8 :> s) @@ (16 :> 104) @@ (24 :> 0)
                           @@ (32 :> 0) @@ (100 :> 10) @@ (104 :> 20)
                           @@ (108 :> 30)]

\* The parser reads the expression.
Assign ==
    /\ ca.st = "source"
    /\ ca' = [ca EXCEPT !.st = "parsed", !.tree = assign(ca.op, ca.A, ca.B)]
    /\ UNCHANGED notca

\* The emitted code of the expression runs.
RunAssign ==
    /\ ca.st = "parsed"
    /\ LET r == run_expr(ca.tree, ca.mem0)
       IN  ca' = [ca EXCEPT !.st = "done", !.mem = r.mem, !.v = r.v]
    /\ UNCHANGED notca

NextAssign == Assign \/ RunAssign


(***************************************************************************)
(*          codegen.c : function calls and the function prologue           *)
(***************************************************************************)

MaxFnArgs == 9      \* arguments of a call, parameters of a function
ArgTypes == {"int", "double"}

\* argreg8[], argreg16[], argreg32[], argreg64[] have six entries each.
NARGREG == 6

\* A register: the file it belongs to and its number in the file
\* (argreg[n], %xmm<n>); file "none" is text that names no register.
Register(file, n) == [file |-> file, n |-> n]

\* What argreg32[idx] and its like read with idx >= 6: the element after
\* the array, which is the first entry of another array or other data.
PastArgreg == {Register("int", 0), Register("none", 0)}

\* argreg32[idx], argreg64[idx], get_argreg(sz, idx); u[idx] is what a read
\* past the end yields
get_argreg(idx, u) == IF idx < NARGREG THEN Register("int", idx) ELSE u[idx]
PastReads == [NARGREG..(MaxFnArgs - 1) -> PastArgreg]

fn_is_flonum(ty) == ty \in {"float", "double"}

\* gen_expr, case ND_FUNCALL: "Load arguments from the stack": the i-th
\* argument goes to %xmm<fp++> or to argreg[gp++]
RECURSIVE funcall_args(_, _, _, _, _)
funcall_args(tys, i, gp, fp, u) ==
    IF i > Len(tys) THEN <<>>
    ELSE IF fn_is_flonum(tys[i])
    THEN <<[arg |-> i, reg |-> Register("sse", fp)]>>
            \o funcall_args(tys, i + 1, gp, fp + 1, u)
    ELSE <<[arg |-> i, reg |-> get_argreg(gp, u)]>>
            \o funcall_args(tys, i + 1, gp + 1, fp, u)

\* emit_text, "Push arguments to the stack": fn->params begins with the last
\* parameter; the parameter is stored from %xmm<--fp> or get_argreg(--gp)
RECURSIVE emit_params(_, _, _, _, _)
emit_params(tys, i, gp, fp, u) ==
    IF i = 0 THEN <<>>
    ELSE IF fn_is_flonum(tys[i])
    THEN <<[arg |-> i, reg |-> Register("sse", fp - 1)]>>
            \o emit_params(tys, i - 1, gp, fp - 1, u)
    ELSE <<[arg |-> i, reg |-> get_argreg(gp - 1, u)]>>
            \o emit_params(tys, i - 1, gp - 1, fp, u)

NumFlo(tys) == Cardinality({i \in 1..Len(tys) : fn_is_flonum(tys[i])})

\* op: "call" or "params"; tys: the types of the arguments or parameters;
\* moves: the register of each; pushed: the arguments pushed on the stack,
\* in the order of the pushes; area: the bytes taken from %rsp for them
FunCall(op, tys, moves, pushed, area) ==
    [op |-> op, tys |-> tys, moves |-> moves, pushed |-> pushed, area |-> area]
FunNone == FunCall("none", <<>>, <<>>, <<>>, 0)

IdleFun == fun = FunNone
InitFuncall == fun = FunNone

ArgLists == UNION {[1..n -> ArgTypes] : n \in 0..MaxFnArgs}

\* gen_expr, case ND_FUNCALL: the arguments are loaded into registers and
\* the function is called; nothing is pushed.
Funcall ==
    /\ fun.op = "none"
    /\ \E tys \in ArgLists, u \in PastReads :
          fun' = FunCall("call", tys, funcall_args(tys, 1, 0, 0, u), <<>>, 0)
    /\ UNCHANGED notfun

\* emit_text: the parameters are stored into their stack slots.
EmitParams ==
    /\ fun.op = "none"
    /\ \E tys \in ArgLists, u \in PastReads :
          fun' = FunCall("params", tys,
                         emit_params(tys, Len(tys), Len(tys) - NumFlo(tys),
                                     NumFlo(tys), u), <<>>, 0)
    /\ UNCHANGED notfun

NextCall == Funcall \/ EmitParams


(***************************************************************************)
(*                      type.c : get_common_type                           *)
(***************************************************************************)

ty_void == Type("TY_VOID", 1, 1, <<>>, 0, <<>>)
ty_short == Type("TY_SHORT", 2, 2, <<>>, 0, <<>>)
ty_long == Type("TY_LONG", 8, 8, <<>>, 0, <<>>)

\* size_of(ty): the size, or the fatal error "void type"
size_of(ty) == IF ty.kind = "TY_VOID" THEN -1 ELSE ty.size

\* get_common_type(ty1, ty2); <<>> is the fatal error of size_of
get_common_type(ty1, ty2) ==
    IF ty1.base # <<>> THEN <<pointer_to(ty1.base[1])>>
    ELSE IF size_of(ty1) = -1 THEN <<>>
    ELSE IF size_of(ty1) = 8 THEN <<ty_long>>
    ELSE IF size_of(ty2) = -1 THEN <<>>
    ELSE IF size_of(ty2) = 8 THEN <<ty_long>>
    ELSE <<ty_int>>

\* The operand types explored: the integer types, pointers and arrays.
MaxArrayLen == 2    \* elements of an array operand
OperandTypes ==
    LET ints == {ty_char, ty_short, ty_int, ty_long}
        ptrs == {pointer_to(t) : t \in ints \cup {ty_void}}
        arrs == {array_of(t, n) : t \in {ty_char, ty_int}, n \in 1..MaxArrayLen}
    IN  ints \cup ptrs \cup arrs \cup {pointer_to(pointer_to(ty_int))}

\* ty1, ty2: the types of lhs and rhs; st: "args" | "done" | "error";
\* ty: what get_common_type returned, swapped: what it returns for
\* (ty2, ty1)
Common(st, ty1, ty2, ty, swapped) ==
    [st |-> st, ty1 |-> ty1, ty2 |-> ty2, ty |-> ty, swapped |-> swapped]

IdleCommon == gct = Common("idle", ty_int, ty_int, <<>>, <<>>)
InitCommon ==
    \E ty1 \in OperandTypes, ty2 \in OperandTypes :
       gct = Common("args", ty1, ty2, <<>>, <<>>)

\* usual_arith_conv(lhs, rhs): ty = get_common_type(lhs->ty, rhs->ty)
UsualArithConv ==
    /\ gct.st = "args"
    /\ LET ty == get_common_type(gct.ty1, gct.ty2)
       IN  gct' = [gct EXCEPT !.st = IF ty = <<>> THEN "error" ELSE "done",
                              !.ty = ty]
    /\ UNCHANGED notgct

\* usual_arith_conv on the same operands the other way round
UsualArithConvSwapped ==
    /\ gct.st = "done" /\ gct.swapped = <<>>
    /\ gct' = [gct EXCEPT !.swapped = get_common_type(gct.ty2, gct.ty1)]
    /\ UNCHANGED notgct

NextCommon == UsualArithConv \/ UsualArithConvSwapped


(***************************************************************************)
(*     main.c : frame offsets; codegen.c : prologue, __builtin_va_start    *)
(***************************************************************************)

MaxLocals == 3      \* local variables and parameters of a function

\* A Var of fn->locals: the size of its type, var->align (the alignment of
\* the type or the one _Alignas gave), whether the type is floating, and
\* var->offset.
FrameVar(size, align, flo) ==
    [size |-> size, align |-> align, flo |-> flo, offset |-> 0]

\* char, int, long, double, char[3], a struct of three ints,
\* _Alignas(16) int, _Alignas(8) char
LocalPool ==
    {FrameVar(1, 1, FALSE), FrameVar(4, 4, FALSE), FrameVar(8, 8, FALSE),
     FrameVar(8, 8, TRUE), FrameVar(3, 1, FALSE), FrameVar(12, 4, FALSE),
     FrameVar(4, 16, FALSE), FrameVar(1, 8, FALSE)}

\* The types a parameter can have among them.
ParamPool == {v \in LocalPool : v.size = v.align}

\* main(): for (var = fn->locals; var; var = var->next) { offset =
\* align_to(offset, var->align); offset += var->ty->size; var->offset =
\* offset; }
RECURSIVE assign_offsets(_, _, _)
assign_offsets(locals, i, offset) ==
    IF i > Len(locals) THEN [locals |-> locals, offset |-> offset]
    ELSE LET o == align_to(offset, locals[i].align) + locals[i].size
         IN  assign_offsets([locals EXCEPT ![i].offset = o], i + 1, o)

\* A store of the prologue: mov reg, off(%rbp)
Store(r, off) == [reg |-> r, off |-> off]

\* emit_text: "mov %r12, -8(%rbp)" ... "mov %r15, -32(%rbp)"
callee_saved == [i \in 1..4 |-> Store(Register("saved", 11 + i), -8 * i)]

\* emit_text: "Save arg registers if function is variadic"
save_arg_registers ==
    [i \in 1..6 |-> Store(Register("int", i - 1), -128 + 8 * (i - 1))]
       \o [i \in 1..6 |-> Store(Register("sse", i - 1), -80 + 8 * (i - 1))]

\* No va_list has been initialised.
NoVa == [gp_offset |-> 0, fp_offset |-> 0, reg_save_area |-> 0]

\* builtin_va_start: gp and fp count the parameters; movl $gp*8, (%rax);
\* movl $48+fp*8, 4(%rax); mov %rbp, 16(%rax); subq $128, 16(%rax)
va_start(params) ==
    LET fp == Cardinality({i \in 1..Len(params) : params[i].flo})
        gp == Len(params) - fp
    IN  [gp_offset |-> gp * 8, fp_offset |-> 48 + fp * 8,
         reg_save_area |-> -128]

\* A Function: op is "parsed" | "offsets" | "prologue" | "va_start";
\* fn->params are the last nparams entries of fn->locals.
Fn(op, is_variadic, locals, nparams, stack_size, stores, va) ==
    [op |-> op, is_variadic |-> is_variadic, locals |-> locals,
     nparams |-> nparams, stack_size |-> stack_size, stores |-> stores,
     va |-> va]
fn_params(f) ==
    SubSeq(f.locals, Len(f.locals) - f.nparams + 1, Len(f.locals))

\* parse() has returned the function: any locals, the last of them the
\* parameters; a variadic function has a parameter.
InitFn ==
    \E n \in 0..MaxLocals, np \in 0..MaxLocals, variadic \in BOOLEAN :
       /\ np <= n /\ (variadic => np > 0)
       /\ \E locals \in [1..n -> LocalPool] :
             /\ \A i \in (n - np + 1)..n : locals[i] \in ParamPool
             /\ fun = Fn("parsed", variadic, locals, np, 0, <<>>, NoVa)

\* main(): the loop over prog->fns that assigns the offsets
AssignOffsets ==
    /\ fun.op = "parsed"
    /\ LET r == assign_offsets(fun.locals, 1,
                               IF fun.is_variadic THEN 128 ELSE 32)
       IN  fun' = [fun EXCEPT !.op = "offsets", !.locals = r.locals,
                              !.stack_size = align_to(r.offset, 16)]
    /\ UNCHANGED notfun

\* emit_text: the prologue
Prologue ==
    /\ fun.op = "offsets"
    /\ fun' = [fun EXCEPT !.op = "prologue",
                          !.stores = callee_saved \o
                             (IF fun.is_variadic THEN save_arg_registers
                              ELSE <<>>)]
    /\ UNCHANGED notfun

\* gen_expr: the call of __builtin_va_start in a variadic function
VaStart ==
    /\ fun.op = "prologue" /\ fun.is_variadic
    /\ fun' = [fun EXCEPT !.op = "va_start", !.va = va_start(fn_params(fun))]
    /\ UNCHANGED notfun

NextFrame == AssignOffsets \/ Prologue \/ VaStart


(***************************************************************************)
(*                                 Claims                                  *)
(***************************************************************************)

\* C1: every statement leaves top as it found it (gen_stmt returns with top
\* equal to its value at the call), so the assert(top == 0) after each
\* function body in emit_text never fails.
C1_StmtLeavesTop ==
    /\ cgst # "assert_failed"
    /\ \A i \in 1..Len(frames) :
         (frames[i].fn = "gen_stmt" /\ frames[i].pc = "ret")
            => top = frames[i].entry

\* A function body containing a labelled construct has been emitted and is
\* about to return to emit_text with top = 0.
C1_Witness ==
    /\ cgst = "run" /\ Len(frames) = 2
    /\ F.fn = "gen_stmt" /\ F.pc = "ret" /\ F.entry = 0 /\ top = 0
    /\ counter > 1

\* C2: every expression node leaves exactly one more value on the
\* evaluation stack: gen_expr returns with top = (top at the call) + 1.
C2_ExprPushesOne ==
    \A i \in 1..Len(frames) :
       (frames[i].fn = "gen_expr" /\ frames[i].pc = "ret")
          => top = frames[i].entry + 1

\* A conditional expression evaluated while another value is live returns.
C2_Witness ==
    /\ cgst = "run" /\ Len(frames) > 0
    /\ F.fn = "gen_expr" /\ F.pc = "ret" /\ F.kind = "ND_COND"
    /\ F.entry > 0 /\ top = F.entry + 1

\* C3: for any finite input the preprocessor terminates: every run ends
\* with the output complete or with a fatal error, whatever self-referential
\* or mutually recursive macros the input defines.
C3_PreprocessorTerminates == <>(ppst \in {"done", "error"})

\* The preprocessor has finished on an input in which a macro's own name
\* came back out of its expansion (the token carries its name in its
\* hideset) while the macro was still defined.
C3_Witness ==
    /\ ppst = "done"
    /\ \E i \in 1..Len(ppout) :
          /\ ppout[i].t \in ppout[i].hs
          /\ find_macro(macros, ppout[i]) # <<>>

\* The source file "#define X X" followed by a line "X".
SelfReferential == Flatten(MacroPool, <<1, 7>>)
Texts(toks) == [i \in 1..Len(toks) |-> toks[i].t]

\* C4: a token whose text names a macro and whose hideset holds that name
\* is never expanded: no expansion step ever starts at such a token, the
\* next token is refused when it is one, and "#define X X" followed by "X"
\* is preprocessed to the identifier X.
C4_HiddenNeverExpanded ==
    /\ pplast.op = "expand" => pplast.T.t \notin pplast.T.hs
    /\ (ppst = "run" /\ Head(ppin).t \in Head(ppin).hs)
          => expand_macro(ppin, macros, PPFuel).res = "no"
    /\ (ppsrc = SelfReferential /\ ppst = "done") => Texts(ppout) = <<"X", "EOF">>

\* A token that names a defined macro was copied to the output unexpanded
\* because its hideset holds the macro's name.
C4_Witness ==
    /\ pplast.op = "pass"
    /\ pplast.T.t \in pplast.T.hs
    /\ find_macro(macros, pplast.T) # <<>>
    /\ ppsrc = SelfReferential

\* C5: when macro M is expanded at token T, every replacement token that is
\* a copy of a token of M's body has the hideset T.hs \cup {M} if M is
\* object-like and (T.hs \cap hideset of the closing parenthesis) \cup {M}
\* if M is function-like.
C5_BodyHideset ==
    pplast.op = "expand" =>
        LET M == pplast.m[1]
            hs == IF M.is_objlike THEN pplast.T.hs \cup {M.name}
                  ELSE (pplast.T.hs \cap pplast.rp) \cup {M.name}
        IN  \A i \in 1..Len(pplast.fb) : pplast.fb[i] => pplast.repl[i].hs = hs

\* A function-like macro was expanded at a token whose hideset is not
\* contained in the closing parenthesis's, and the replacement holds a body
\* token.
C5_Witness ==
    /\ pplast.op = "expand"
    /\ ~pplast.m[1].is_objlike
    /\ pplast.T.hs # {}
    /\ pplast.T.hs \cap pplast.rp # pplast.T.hs
    /\ \E i \in 1..Len(pplast.fb) : pplast.fb[i]

\* The conditional directives of a source file, read line by line: the
\* number of conditionals open at the end, or -1 if an #elif, #else or
\* #endif stands where none is open.
RECURSIVE OpenAtEnd(_, _)
OpenAtEnd(toks, depth) ==
    IF IsEOF(Head(toks)) THEN depth
    ELSE IF ~is_hash(Head(toks)) THEN OpenAtEnd(Tail(toks), depth)
    ELSE IF toks[2].t \in {"if", "ifdef", "ifndef"}
    THEN OpenAtEnd(Tail(toks), depth + 1)
    ELSE IF toks[2].t \in {"elif", "else", "endif"}
    THEN IF depth = 0 THEN -1
         ELSE OpenAtEnd(Tail(toks), IF toks[2].t = "endif" THEN depth - 1 ELSE depth)
    ELSE OpenAtEnd(Tail(toks), depth)

\* C6: preprocessing succeeds only if the conditional directives nest
\* properly: a file with an #elif, #else or #endif where no conditional is
\* open, or with a conditional still open at its end (its group included or
\* skipped), never reaches the end of preprocessing; and the preprocessor
\* never stands on such a directive, or at the end of the input, with
\* another count of open conditionals than the file's lines give.
C6_ConditionalsNest ==
    /\ ppst = "done" => OpenAtEnd(ppsrc, 0) = 0
    /\ (ppst = "error" /\ pperr = "unterminated conditional directive")
          => OpenAtEnd(ppsrc, 0) > 0
    /\ (ppst = "error" /\ pperr \in {"stray #elif", "stray #else", "stray #endif"})
          => (OpenAtEnd(ppsrc, 0) = -1 \/ cond_incl # <<>>)

\* The end of the input was reached inside a skipped group and the
\* preprocessor stopped with the error.
C6_Witness ==
    /\ ppst = "error" /\ pperr = "unterminated conditional directive"
    /\ ~Head(cond_incl).included
    /\ pplast.op \in {"if", "ifdef", "ifndef"}

\* The last #define or #undef of a name in the file so far: the macro it
\* defined, or <<>> after #undef or with no directive for the name.
RECURSIVE Latest(_, _)
Latest(hist, name) ==
    IF hist = <<>> THEN <<>>
    ELSE IF hist[Len(hist)].name = name
    THEN (IF hist[Len(hist)].deleted THEN <<>> ELSE <<hist[Len(hist)]>>)
    ELSE Latest(SubSeq(hist, 1, Len(hist) - 1), name)

\* C7: after #undef M the name M is undefined however many definitions of
\* M the macro table still holds, and at every point the most recent
\* #define or #undef of a name decides whether and how it is defined: the
\* lookup agrees with it, and a token is expanded only by that definition.
C7_LatestDirectiveDecides ==
    /\ \A name \in {"X", "T", "U", "F", "G"} :
          find_macro(macros, Tok(name, FALSE, FALSE)) = Latest(pphist, name)
    /\ pplast.op = "undef" => find_macro(macros, pplast.T) = <<>>
    /\ pplast.op = "expand" => pplast.m = Latest(pphist, pplast.T.t)

\* A name defined twice and then undefined was met afterwards and copied to
\* the output unexpanded.
C7_Witness ==
    /\ pplast.op = "pass"
    /\ pphist # <<>>
    /\ pphist[Len(pphist)].deleted
    /\ pphist[Len(pphist)].name = pplast.T.t
    /\ \E i, j \in 1..Len(pphist) :
          /\ i < j
          /\ pphist[i].name = pplast.T.t /\ ~pphist[i].deleted
          /\ pphist[j].name = pplast.T.t /\ ~pphist[j].deleted

\* C8: leave_scope removes exactly the entries declared in the block being
\* left: after it both scope lists are what they were at the matching
\* enter_scope, so a name shadowed in the block resolves to its outer
\* declaration again.
C8_LeaveScopeRestores ==
    sclast.op = "leave_scope"
       => /\ var_scope = sclast.vs
          /\ tag_scope = sclast.ts
          /\ \A name \in VarNames :
               find_scope(var_scope, name) = find_scope(sclast.vs, name)

\* An inner declaration of x has just been removed by leave_scope while an
\* outer declaration of x is still visible.
C8_Witness ==
    /\ sclast.op = "leave_scope"
    /\ sclast.pre # <<>> /\ Head(sclast.pre).name = "x"
    /\ Head(sclast.pre).depth > scope_depth
    /\ find_scope(var_scope, "x") # <<>>

(* ------------------------- struct layout (C10) ------------------------- *)

\* The least multiple of align that is not below n.
RoundUp(n, align) ==
    CHOOSE k \in n..(n + align) :
        k % align = 0 /\ \A j \in n..(k - 1) : j % align # 0

\* The sum of the member sizes from s on, each preceded by the padding that
\* places the member at a multiple of its own alignment.
RECURSIVE PaddedSum(_, _)
PaddedSum(ms, s) ==
    IF ms = <<>> THEN s
    ELSE PaddedSum(Tail(ms), RoundUp(s, Head(ms).align) + Head(ms).ty.size)

\* C10: a struct type with no bit-field members has the largest member
\* alignment as its alignment, and its size is the padded sum of the member
\* sizes rounded up to that alignment.
C10_StructLayout ==
    (declby = "struct" /\ \A i \in DOMAIN mems : ~mems[i].is_bitfield) =>
        /\ mems # <<>> =>
             /\ \E i \in DOMAIN mems : tagty.align = mems[i].align
             /\ \A i \in DOMAIN mems : tagty.align >= mems[i].align
        /\ tagty.size = RoundUp(PaddedSum(mems, 0), tagty.align)

\* A struct with padding between two members and after the last one.
C10_Witness ==
    /\ declby = "struct" /\ \A i \in DOMAIN mems : ~mems[i].is_bitfield
    /\ \E i \in 2..Len(mems) :
          tagty.members[i].offset
            > tagty.members[i - 1].offset + tagty.members[i - 1].ty.size
    /\ tagty.size > PaddedSum(mems, 0)

(* ------------------- pointers in global data (C9) ---------------------- *)

\* The address each offered expression denotes when it is the address of a
\* global plus a number of bytes.
AddressOf ==
    ("g17 + 3" :> [label |-> "g17", addend |-> 3])
    @@ ("&g24 - 1" :> [label |-> "g24", addend |-> -4])

\* The pointers to globals in an initializer of type ty placed at byte
\* offset off: where each one lies, and the global and addend it denotes.
RECURSIVE PointerLeaves(_, _, _)
PointerLeaves(init, ty, off) ==
    IF ty.kind = "TY_ARRAY"
    THEN UNION {PointerLeaves(init.children[i], ty.base[1],
                              off + (i - 1) * ty.base[1].size) :
                  i \in DOMAIN init.children}
    ELSE IF ty.kind = "TY_STRUCT"
    THEN UNION {IF ty.members[i].is_bitfield THEN {}
                ELSE PointerLeaves(init.children[i], ty.members[i].ty,
                                   off + ty.members[i].offset) :
                  i \in DOMAIN init.children}
    ELSE IF ty.kind = "TY_PTR"
    THEN {[offset |-> off, label |-> AddressOf[t].label,
           addend |-> AddressOf[t].addend] :
            t \in {t \in DOMAIN AddressOf : PtrExprs[t] = init.expr[1]}}
    ELSE {}

\* The byte offset within the global at which the i-th directive starts.
RECURSIVE OutPos(_)
OutPos(i) ==
    IF i = 1 THEN 0
    ELSE OutPos(i - 1) + (IF asmout[i - 1].dir = ".quad" THEN 8 ELSE 1)

\* A union of the global was given more than one initializer.
SeveralUnionInits ==
    /\ declby = "union"
    /\ IF gvar.ty.kind = "TY_STRUCT" THEN Len(ginit.children) > 1
       ELSE \E i \in DOMAIN ginit.children :
               Len(ginit.children[i].children) > 1

Spelling(text) ==
    LET pre == IF Len(text) > 2 /\ text[1] = "0"
                  /\ text[2] \in {"x", "X", "b", "B"} THEN 2 ELSE 0
        base == IF pre = 2 THEN (IF text[2] \in {"x", "X"} THEN 16 ELSE 2)
                ELSE IF text[1] = "0" THEN 8 ELSE 10
        isdig(c) == c \in DOMAIN DigitVal /\ DigitVal[c] < base
        last == CHOOSE n \in pre..Len(text) :
                   /\ \A i \in (pre + 1)..n : isdig(text[i])
                   /\ n < Len(text) => ~isdig(text[n + 1])
        first == CHOOSE n \in (pre + 1)..(last + 1) :
                   /\ \A i \in (pre + 1)..(n - 1) : text[i] = "0"
                   /\ n <= last => text[n] # "0"
    IN [base |-> base, digits |-> SubSeq(text, first, last),
        suffix |-> SubSeq(text, last + 1, Len(text))]

\* a <= b for two decimal numbers written without leading zeros.
DecLE(a, b) ==
    \/ Len(a) < Len(b)
    \/ /\ Len(a) = Len(b)
       /\ \/ a = b
          \/ \E i \in 1..Len(a) :
                /\ DigitVal[a[i]] < DigitVal[b[i]]
                /\ \A j \in 1..(i - 1) : a[j] = b[j]

\* The first of int, long, long long (unsigned: of their unsigned
\* variants) that can represent the decimal number d; long long is long.
FirstFit(d, unsigned) ==
    IF unsigned
    THEN IF DecLE(d, Limits.UINT_MAX) THEN "ty_uint"
         ELSE IF DecLE(d, Limits.ULONG_MAX) THEN "ty_ulong" ELSE "none"
    ELSE IF DecLE(d, Limits.INT_MAX) THEN "ty_int"
         ELSE IF DecLE(d, Limits.LONG_MAX) THEN "ty_long" ELSE "none"

\* The suffix contains the character c in either case.
HasSuffix(text, c) ==
    \E i \in DOMAIN Spelling(text).suffix :
        Spelling(text).suffix[i] \in c

\* C11 as stated: the token of every decimal literal has the first of int,
\* long, long long that can represent it as its type, or with a u suffix
\* the first of the unsigned types.
C11_FirstTypeThatFits ==
    (/\ lex.st = "token" /\ Spelling(lex.text).base = 10
     /\ FirstFit(Spelling(lex.text).digits,
                 HasSuffix(lex.text, {"u", "U"})) # "none") =>
        lex.ty = FirstFit(Spelling(lex.text).digits,
                          HasSuffix(lex.text, {"u", "U"}))

\* C11, amended: the same for the decimal literals that have no l or ll
\* suffix; with one, the type is long (unsigned long with a u as well).
C11_FirstTypeThatFitsNoL ==
    (lex.st = "token" /\ Spelling(lex.text).base = 10) =>
        IF HasSuffix(lex.text, {"l", "L"})
        THEN lex.ty = IF HasSuffix(lex.text, {"u", "U"}) THEN "ty_ulong"
                      ELSE "ty_long"
        ELSE FirstFit(Spelling(lex.text).digits,
                      HasSuffix(lex.text, {"u", "U"})) # "none" =>
               lex.ty = FirstFit(Spelling(lex.text).digits,
                                 HasSuffix(lex.text, {"u", "U"}))

\* An unsuffixed decimal literal too large for int became a long token.
C11_Witness ==
    /\ lex.st = "token" /\ Spelling(lex.text).base = 10
    /\ Spelling(lex.text).suffix = <<>>
    /\ ~DecLE(Spelling(lex.text).digits, Limits.INT_MAX)
    /\ DecLE(Spelling(lex.text).digits, Limits.LONG_MAX)
    /\ lex.ty = "ty_long"

\* The literal's value fits in long long: at most 63 bits.
FitsLongLong(text) ==
    LET sp == Spelling(text)
        width == CASE sp.base = 16 -> 4 [] sp.base = 8 -> 3 [] OTHER -> 1
        bitlen(v) == CHOOSE k \in 0..4 :
                        2 ^ k > v /\ (k = 0 \/ 2 ^ (k - 1) <= v)
    IN IF sp.base = 10 THEN DecLE(sp.digits, Limits.LONG_MAX)
       ELSE sp.digits = <<>>
            \/ (Len(sp.digits) - 1) * width
               + bitlen(DigitVal[sp.digits[1]]) <= 63

\* C12: no token is made of an integer literal whose value does not fit in
\* long long.
C12_TooLargeRejected == lex.st = "token" => FitsLongLong(lex.text)

(* ------------------- string initializers (C13) ------------------------- *)

\* The elements C13 gives char x[n] = "...": the characters of the literal
\* (str ends with the NUL) as far as they fit, then zeros.
StrExpected(n, str) == [i \in 1..n |-> IF i <= Len(str) THEN str[i] ELSE 0]

\* C13: a string literal that initialises char x[N] sets the first
\* min(N, length of the literal with its NUL) elements to the characters of
\* the literal and leaves the other elements zero, in init_data and in the
\* .byte directives emitted for the variable.
C13_StringInitPrefixThenZero ==
    \A tok \in StrToks :
       /\ dcst \in {"defined", "emitted"}
       /\ gvar.ty.kind = "TY_ARRAY" /\ gvar.ty.base[1].kind = "TY_CHAR"
       /\ ginit = string_initializer(gvar.ty, tok)
       => /\ gvar.init_data = StrExpected(gvar.ty.array_len, tok.str)
          /\ gvar.rel = <<>>
          /\ dcst = "emitted" =>
                asmout = [i \in 1..gvar.ty.array_len |->
                            [dir |-> ".byte", label |-> "",
                             val |-> StrExpected(gvar.ty.array_len,
                                                 tok.str)[i]]]

\* char x[3] = "abcd" was emitted as 'a', 'b', 'c'.
C13_Witness ==
    /\ dcst = "emitted"
    /\ gvar.ty = array_of(ty_char, 3)
    /\ ginit = string_initializer(gvar.ty, StrTok(<<97, 98, 99, 100, 0>>))
    /\ gvar.init_data = <<97, 98, 99>>
    /\ Len(asmout) = 3 /\ asmout[3].val = 99


(* ------------------- forward-declared tags (C14) ----------------------- *)

C15_PrintedTextIsFixedPoint ==
    pe.run = 2 =>
       /\ ppst # "error"
       /\ ppst = "printed" => pe.text[2] = pe.text[1]


(* ------------------------- -D options (C16) ---------------------------- *)

\* The last -D option that names n, <<>> if there is none.
RECURSIVE LastD(_, _)
LastD(args, n) ==
    IF args = <<>> THEN <<>>
    ELSE With(args[Len(args)], LAMBDA a :
           IF a.opt = "-D" /\ define(a.val).name = n THEN <<define(a.val)>>
           ELSE LastD(SubSeq(args, 1, Len(args) - 1), n))

\* C16: a macro given with -D name=value (or -D name, with an empty body)
\* is defined when the file is preprocessed: until the source defines or
\* undefines the name, a use of it expands to the value and #ifdef name
\* is true.
C16_DefinedFromCommandLine ==
    \A n \in {"X", "__711cc__"} :
       /\ LastD(mn.args, n) # <<>>
       /\ ppst = "run" /\ pplast.T.t = n
       /\ \A i \in DOMAIN pphist : pphist[i].name # n
       => /\ pplast.op = "pass" => n \in pplast.T.hs
          /\ pplast.op = "expand" =>
                Texts(pplast.repl)
                = Texts(BeforeEOF(LastD(mn.args, n)[1].body))
          /\ pplast.op = "ifdef" => Head(cond_incl).included


(* ---------------------- include paths (C17, C18) ----------------------- *)

\* The directories of the -I options, in command-line order.
RECURSIVE IOptions(_)
IOptions(args) ==
    IF args = <<>> THEN <<>>
    ELSE (IF Head(args).opt = "-I" THEN Head(args).val ELSE <<>>)
         \o IOptions(Tail(args))

\* C17: when the command line has been read, the include-path list holds
\* the -I directories in command-line order and after them
\* <argv0-dir>/include, /usr/local/include, /usr/include/x86_64-linux-gnu
\* and /usr/include.
C17_DefaultsAfterIOptions ==
    mn.st = "ready" =>
       mn.include_paths
       = IOptions(mn.args) \o <<"<argv0-dir>/include", "/usr/local/include",
                                "/usr/include/x86_64-linux-gnu",
                                "/usr/include">>

\* The first directory of a list in which the file exists, as a path.
RECURSIVE FirstExisting(_, _, _)
FirstExisting(dirs, fs, file) ==
    IF dirs = <<>> THEN <<>>
    ELSE IF <<Head(dirs), file>> \in fs THEN <<Head(dirs), file>>
    ELSE FirstExisting(Tail(dirs), fs, file)

\* C18: #include "file" takes the file from the directory of the including
\* source file if it exists there, otherwise from the first directory of
\* the include-path list that has it; #include <file> looks in the list
\* only.
C18_QuoteLooksInSourceDirFirst ==
    /\ mn.inc.kind = "str" =>
          mn.inc.path = FirstExisting(<<mn.from>> \o mn.include_paths,
                                      mn.fs, mn.inc.file)
    /\ mn.inc.kind = "angle" =>
          mn.inc.path = FirstExisting(mn.include_paths, mn.fs, mn.inc.file)


(* ----------------------- align_to twice (C19) -------------------------- *)

RECURSIVE InnerLabel(_, _)
InnerLabel(fs, kinds) ==
    IF fs = <<>> THEN 0
    ELSE IF fs[Len(fs)].kind \in kinds THEN fs[Len(fs)].c
    ELSE InnerLabel(SubSeq(fs, 1, Len(fs) - 1), kinds)

\* C20: in any nesting of loops and switches, whenever the emitter starts
\* on a node or returns from one, brknum is the label of the innermost
\* enclosing loop or switch and contnum the label of the innermost
\* enclosing loop, and each is 0 outside every such statement: the targets
\* are saved on entry and restored on exit.  A break or continue that was
\* emitted therefore jumped to that label, and outside every loop or
\* switch it is the "stray" error.
C20_InnermostBreakContinue ==
    cgst = "run" /\ Len(frames) > 0 /\ F.pc \in {"enter", "ret"} =>
       /\ brknum = InnerLabel(SubSeq(frames, 1, Len(frames) - 1),
                              {"ND_FOR", "ND_DO", "ND_SWITCH"})
       /\ contnum = InnerLabel(SubSeq(frames, 1, Len(frames) - 1),
                               {"ND_FOR", "ND_DO"})
       /\ F.kind = "ND_BREAK" => brknum # 0
       /\ F.kind = "ND_CONTINUE" => contnum # 0

\* A continue was emitted in a switch inside a loop: break and continue
\* have different targets, the switch's label and the loop's.
C20_Witness ==
    /\ cgst = "run" /\ Len(frames) > 2
    /\ F.kind = "ND_CONTINUE" /\ F.pc = "ret"
    /\ frames[Len(frames) - 1].kind = "ND_SWITCH"
    /\ frames[Len(frames) - 2].kind \in {"ND_FOR", "ND_DO"}
    /\ brknum = frames[Len(frames) - 1].c
    /\ contnum = frames[Len(frames) - 2].c
    /\ contnum # 0 /\ contnum # brknum


\* The switch statement the node n is written in: the nearest statement
\* above it that is a switch (0 if none).
RECURSIVE Owner(_, _)
Owner(nodes, n) ==
    IF nodes[n].up = 0 THEN 0
    ELSE IF nodes[nodes[n].up].kind = "ND_SWITCH" THEN nodes[n].up
    ELSE Owner(nodes, nodes[n].up)

\* When the dispatch code of a switch has just jumped, with controlling
\* values and case constants among vals: the expression was evaluated
\* once, and the processor is at the label of a case of that switch whose
\* constant is the value, else at its default, else behind its body.
SwitchLands(vals) ==
    /\ sw.st # "asm_error"
    /\ ( /\ sw.st = "run" /\ sw.jumped # 0 /\ sw.reg \in vals
         /\ \A n \in 1..Len(sw.nodes) : sw.nodes[n].src \in vals )
       => LET s == sw.jumped
              at == sw.code[sw.pc]
              labels(d) ==
                  {n \in 1..Len(sw.nodes) :
                      /\ sw.nodes[n].kind = "ND_CASE"
                      /\ sw.nodes[n].dflt = d
                      /\ Owner(sw.nodes, n) = s
                      /\ d \/ sw.nodes[n].src = sw.reg}
          IN  /\ sw.evals[s] = 1
              /\ IF labels(FALSE) # {}
                 THEN at.op = "case_label" /\ at.n \in labels(FALSE)
                 ELSE IF labels(TRUE) # {}
                 THEN at.op = "case_label" /\ at.n \in labels(TRUE)
                 ELSE at.op = "break_label" /\ at.n = s

\* C21: a switch evaluates its controlling expression once and transfers
\* control to the case of that switch whose constant equals the value,
\* otherwise to its default, otherwise past its body; the labels of a
\* nested switch belong to the nested switch only, and those after it to
\* the outer switch again.
C21_SwitchTransfersControl == SwitchLands(SwitchVals)


\* The reading of a file of chains by the rule of the standard, line by
\* line.  s.x: X is defined; s.out: the text passed on; s.err: a #error
\* was met; s.open: for every open chain, outer (the chain itself is in a
\* group that is passed on), taken (a group of the chain was chosen) and
\* on (the current group is the chosen one).
ChainOn(s) == s.open = <<>> \/ s.open[Len(s.open)].on

RECURSIVE ChainRule(_, _, _)
ChainRule(lines, k, s) ==
    IF k > Len(lines) \/ s.err THEN s
    ELSE LET line == lines[k]
             d == DirectiveOf(line)
             cur == s.open[Len(s.open)]
             up == SubSeq(s.open, 1, Len(s.open) - 1)
             cond == CASE d = "ifndef" -> ~s.x
                       [] line[Len(line)].t = "__711cc__" -> TRUE
                       [] OTHER -> s.x
             opened == [outer |-> ChainOn(s), taken |-> ChainOn(s) /\ cond,
                        on |-> ChainOn(s) /\ cond]
             choose(c) == [outer |-> cur.outer,
                           taken |-> cur.taken \/ (cur.outer /\ c),
                           on |-> cur.outer /\ ~cur.taken /\ c]
         IN  ChainRule(lines, k + 1,
               CASE d \in {"if", "ifdef", "ifndef"} ->
                      [s EXCEPT !.open = Append(s.open, opened)]
                 [] d = "elif" -> [s EXCEPT !.open = Append(up, choose(cond))]
                 [] d = "else" -> [s EXCEPT !.open = Append(up, choose(TRUE))]
                 [] d = "endif" -> [s EXCEPT !.open = up]
                 [] ~ChainOn(s) -> s
                 [] d = "define" -> [s EXCEPT !.x = TRUE]
                 [] d = "error" -> [s EXCEPT !.err = TRUE]
                 [] line[1].t = "EOF" -> s
                 [] OTHER -> [s EXCEPT !.out = Append(@, IF s.x THEN "1"
                                                        ELSE "X")])

ChainResult ==
    ChainRule(SrcLines(ppsrc), 1,
              [x |-> FALSE, out |-> <<>>, err |-> FALSE, open |-> <<>>])

\* C22: of every #if / #ifdef / #ifndef ... #elif ... #else ... #endif
\* chain only the first group whose condition is true, or the #else group
\* when none is, is passed on; the text, the #define and the #error of
\* every other group, nested chains included, have no effect: the output,
\* the macro table and the #error are those of the chosen groups.
C22_OneGroupPassedOn ==
    /\ ppst = "done" =>
         /\ ~ChainResult.err
         /\ [i \in 1..Len(ppout) |-> ppout[i].t] = Append(ChainResult.out, "EOF")
         /\ (find_macro(macros, Tok("X", FALSE, FALSE)) # <<>>) = ChainResult.x
    /\ ppst = "error" =>
         /\ pperr \in {"#error", "unterminated conditional directive"}
         /\ (pperr = "#error") = ChainResult.err

\* A chain whose #if group was skipped with a nested chain, a #define or a
\* #error in it, and whose #else or #elif group was passed on.
C22_Witness ==
    /\ ppst = "done" /\ Len(ppout) > 1
    /\ LET lines == SrcLines(ppsrc)
       IN  /\ Len(lines) > 5
           /\ DirectiveOf(lines[1]) \in {"if", "ifdef"}
           /\ DirectiveOf(lines[2]) \in {"ifndef", "define", "error"}
           /\ \E k \in 3..Len(lines) :
                 /\ DirectiveOf(lines[k]) \in {"else", "elif"}
                 /\ DirectiveOf(lines[k + 1]) = ""
    /\ ~ChainResult.x


\* The memory after A op= B by the rule of the language: A is located
\* once, its value read, the result of the operator stored into A.
AssignRule ==
    LET A == ca.A
        m0 == IF A.kind = "ND_DEREF"
              THEN [ca.mem0 EXCEPT ![AddrOf.calls] = @ + 1]
              ELSE ca.mem0
        loc == CASE A.kind = "ND_DEREF" -> AddrOf.a
                 [] A.kind = "ND_MEMBER" -> AddrOf.s
                 [] OTHER -> AddrOf[A.var]
        m == Members[A.var]
        old == IF A.kind = "ND_MEMBER"
               THEN (m0[loc] \div 2 ^ m.bit_offset) % 2 ^ m.bit_width
               ELSE m0[loc]
        b == IF ca.op \in {"inc", "dec"} THEN 1
             ELSE IF ca.B.kind = "ND_NUM" THEN ca.B.val ELSE m0[AddrOf.i]
        new == binary_op(AssignOps[ca.op], old,
                         IF type_of(A) = "ptr" THEN 4 * b ELSE b)
        unit == IF A.kind = "ND_MEMBER"
                THEN m0[loc] - old * 2 ^ m.bit_offset
                     + (new % 2 ^ m.bit_width) * 2 ^ m.bit_offset
                ELSE new
    IN  [m0 EXCEPT ![loc] = unit]

\* C23: A op= B, ++A and --A store the result of the operator into A and
\* evaluate the lvalue A once, for every compound operator and every pair
\* of operand types the parser accepts.
C23_CompoundAssignStoresIntoA ==
    ca.st = "done" =>
       \A a \in DOMAIN ca.mem \ {AddrOf.tmp} : ca.mem[a] = AssignRule[a]


\* C24: #include X with a macro X that names the header only expands X
\* and includes the file: every name is defined after the directive as it
\* was before, the stack of open conditionals is the same, and the
\* directive succeeds wherever it stands, inside an open #if group too.
C24_IncludeMacroKeepsState ==
    [][ ( /\ PPDirective("include") /\ IsIdent(ppin[3].t)
          /\ find_macro(macros, ppin[3]) # <<>> )
        => /\ ppst' = "run"
           /\ cond_incl' = cond_incl
           /\ \A n \in PPIdents :
                 find_macro(macros', Tok(n, FALSE, FALSE))
                    = find_macro(macros, Tok(n, FALSE, FALSE)) ]_vars


\* C25: the extra tokens on the line of #include, #undef, #ifdef, #ifndef,
\* #else or #endif are skipped: right after such a directive the input
\* stands at the first token of a line, and no extra token is ever part of
\* the output.
C25_ExtraTokensSkipped ==
    ppst \in {"run", "done"} =>
       /\ \A i \in 1..Len(ppout) : ppout[i].t # "foo"
       /\ pplast.op \in TrailingDirectives => Head(ppin).bol


\* C26: six registers are enough for every valid program: top stays within
\* 0..6, and while a valid program (here: expression statements of nested
\* binary operators over numbers) is compiled, no call of reg(), xreg() or
\* freg() is fatal with "register out of range".
C26_SixRegistersSuffice ==
    /\ top \in 0..NREGS
    /\ astclass = "chain" => cgst # "error"


\* C27: in a call the first six integer arguments are in argreg[0..5] and
\* the first eight floating ones in %xmm0..7; the others are pushed, the
\* last first, in 8-byte slots of an area that is a multiple of 16 bytes;
\* a function definition takes its seventh and later integer parameters
\* from the stack.
ArgRank(tys, i) ==
    Cardinality({j \in 1..(i - 1) : fn_is_flonum(tys[j]) = fn_is_flonum(tys[i])})
InRegister(tys, i) ==
    ArgRank(tys, i) < (IF fn_is_flonum(tys[i]) THEN 8 ELSE NARGREG)
ArgRegister(tys, i) ==
    Register(IF fn_is_flonum(tys[i]) THEN "sse" ELSE "int", ArgRank(tys, i))
RECURSIVE RightToLeft(_, _)
RightToLeft(tys, i) ==
    IF i = 0 THEN <<>>
    ELSE (IF InRegister(tys, i) THEN <<>> ELSE <<i>>) \o RightToLeft(tys, i - 1)
ArgsPassed(f) ==
    /\ f.op = "call" =>
          /\ \A k \in 1..Len(f.moves) :
                InRegister(f.tys, f.moves[k].arg)
                   => f.moves[k].reg = ArgRegister(f.tys, f.moves[k].arg)
          /\ f.pushed = RightToLeft(f.tys, Len(f.tys))
          /\ f.area = align_to(8 * Len(f.pushed), 16)
    /\ f.op = "params" =>
          \A k \in 1..Len(f.moves) :
             IF InRegister(f.tys, f.moves[k].arg)
             THEN f.moves[k].reg = ArgRegister(f.tys, f.moves[k].arg)
             ELSE fn_is_flonum(f.tys[f.moves[k].arg])
                     \/ f.moves[k].reg.file = "stack"
C27_ArgumentsInRegistersAndStack == ArgsPassed(fun)


\* C29: for integer and pointer operands get_common_type(t1, t2) is a
\* pointer type if t1 or t2 has a base type, else long if one of them has
\* size 8, else int; and it is the same for (t2, t1).
CommonTypeRule(c) ==
    /\ c.st = "done" =>
          c.ty[1].kind =
             IF c.ty1.base # <<>> \/ c.ty2.base # <<>> THEN "TY_PTR"
             ELSE IF c.ty1.size = 8 \/ c.ty2.size = 8 THEN "TY_LONG"
             ELSE "TY_INT"
    /\ (c.st = "done" /\ c.swapped # <<>>) => c.swapped[1].kind = c.ty[1].kind
C29_CommonTypeOfEitherOperand == CommonTypeRule(gct)


\* C28: the prologue of a variadic function stores the six integer and the
\* eight floating argument registers in a register save area of 176 bytes
\* (8 bytes for each integer register, then 16 for each floating one) at a
\* fixed place of the frame; the area shares no byte with the slots of the
\* callee-saved registers or with a local; va_start points the va_list's
\* reg_save_area at the start of the area.
SaveAreaStart(f) == CHOOSE o \in -512..0 :
    \E k \in 1..Len(f.stores) : f.stores[k] = Store(Register("int", 0), o)
Overlap(a, m, b, n) == a < b + n /\ b < a + m
RegisterSaveArea(f) ==
    (f.op \in {"prologue", "va_start"} /\ f.is_variadic) =>
       LET start == SaveAreaStart(f)
           size == 176
           stored(r, o) ==
              \E k \in 1..Len(f.stores) : f.stores[k] = Store(r, o)
       IN  /\ \A n \in 0..5 : stored(Register("int", n), start + 8 * n)
           /\ \A n \in 0..7 : stored(Register("sse", n), start + 48 + 16 * n)
           /\ start + size <= 0
           /\ \A k \in 1..Len(f.stores) :
                 f.stores[k].reg.file = "saved"
                    => ~Overlap(f.stores[k].off, 8, start, size)
           /\ \A i \in 1..Len(f.locals) :
                 ~Overlap(-f.locals[i].offset, f.locals[i].size,
                          start, size)
           /\ f.op = "va_start" => f.va.reg_save_area = start
C28_RegisterSaveArea == RegisterSaveArea(fun)

\* C30: after the offsets are assigned every local and parameter is at
\* rbp - offset, a multiple of its alignment; the byte ranges of two of
\* them are disjoint; each lies below the reserved area (32 bytes, 128 in
\* a variadic function) and inside the frame; stack_size is a multiple of
\* 16.
FrameLayout(f) ==
    f.op # "parsed" =>
       LET reserved == IF f.is_variadic THEN 128 ELSE 32
       IN  /\ f.stack_size % 16 = 0
           /\ \A i \in 1..Len(f.locals) :
                 /\ f.locals[i].offset % f.locals[i].align = 0
                 /\ f.locals[i].offset - f.locals[i].size >= reserved
                 /\ f.locals[i].offset <= f.stack_size
           /\ \A i, j \in 1..Len(f.locals) :
                 i # j => ~Overlap(-f.locals[i].offset, f.locals[i].size,
                                   -f.locals[j].offset, f.locals[j].size)
C30_FrameOffsets == FrameLayout(fun)


(***************************************************************************)
(*                             Specifications                              *)
(***************************************************************************)

\* The subsystems added after the declarations, at rest.
IdleX == IdleLex /\ IdleTag /\ IdlePE /\ IdleMain /\ IdleAlign

\* The subsystems added last, at rest.
IdleY == IdleSwitch /\ IdleAssign /\ IdleFun /\ IdleCommon

InitCG == InitCGState /\ IdleSC /\ IdlePP /\ IdleDC /\ IdleX /\ IdleY
InitScope == IdleSC /\ IdleCG /\ IdlePP /\ IdleDC /\ IdleX /\ IdleY
InitPreprocess == InitPP /\ IdleCG /\ IdleSC /\ IdleDC /\ IdleX /\ IdleY
InitDecl == InitDC /\ IdleCG /\ IdleSC /\ IdlePP /\ IdleX /\ IdleY
InitLexer ==
    InitLex /\ IdleCG /\ IdleSC /\ IdlePP /\ IdleDC /\ IdleTag /\ IdlePE
    /\ IdleMain /\ IdleAlign /\ IdleY
InitTags ==
    InitTag /\ IdleCG /\ IdleSC /\ IdlePP /\ IdleDC /\ IdleLex /\ IdlePE
    /\ IdleMain /\ IdleAlign /\ IdleY
InitE ==
    InitPP /\ InitPE /\ IdleCG /\ IdleSC /\ IdleDC /\ IdleLex /\ IdleTag
    /\ IdleMain /\ IdleAlign /\ IdleY
InitDefine ==
    InitPPMain /\ InitMainD /\ IdleCG /\ IdleSC /\ IdleDC /\ IdleLex
    /\ IdleTag /\ IdlePE /\ IdleAlign /\ IdleY
InitInclude ==
    InitPPMain /\ InitMain /\ IdleCG /\ IdleSC /\ IdleDC /\ IdleLex
    /\ IdleTag /\ IdlePE /\ IdleAlign /\ IdleY

InitAligned ==
    InitAlign /\ IdleCG /\ IdleSC /\ IdlePP /\ IdleDC /\ IdleLex /\ IdleTag
    /\ IdlePE /\ IdleMain /\ IdleY

InitSwitchStmt ==
    InitSwitch /\ IdleCG /\ IdleSC /\ IdlePP /\ IdleDC /\ IdleX
    /\ IdleAssign /\ IdleFun /\ IdleCommon

InitCompound ==
    InitAssign /\ IdleCG /\ IdleSC /\ IdlePP /\ IdleDC /\ IdleX
    /\ IdleSwitch /\ IdleFun /\ IdleCommon

InitCall ==
    InitFuncall /\ IdleCG /\ IdleSC /\ IdlePP /\ IdleDC /\ IdleX /\ IdleSwitch
    /\ IdleAssign /\ IdleCommon

InitCommonType ==
    InitCommon /\ IdleCG /\ IdleSC /\ IdlePP /\ IdleDC /\ IdleX /\ IdleSwitch
    /\ IdleAssign /\ IdleFun

InitFrame ==
    InitFn /\ IdleCG /\ IdleSC /\ IdlePP /\ IdleDC /\ IdleX /\ IdleSwitch
    /\ IdleAssign /\ IdleCommon

SpecCG == InitCG /\ [][NextCG]_vars
SpecScope == InitScope /\ [][NextScope]_vars
SpecMacro == InitPreprocess /\ [][NextMacro]_vars
SpecMacroFair == InitPreprocess /\ [][NextMacro]_vars /\ WF_vars(NextMacro)
SpecCond == InitPreprocess /\ [][NextCond]_vars
SpecDecl == InitDecl /\ [][NextDecl]_vars
SpecLexer == InitLexer /\ [][NextLex]_vars
SpecTags == InitTags /\ [][NextTag]_vars
SpecE == InitE /\ [][NextE]_vars
SpecDefine == InitDefine /\ [][NextDefine]_vars
SpecInclude == InitInclude /\ [][NextInclude]_vars
SpecAlign == InitAligned /\ [][NextAlign]_vars
SpecSwitch == InitSwitchStmt /\ [][NextSwitch]_vars
SpecGroup == InitPreprocess /\ [][NextGroup]_vars
SpecAssign == InitCompound /\ [][NextAssign]_vars
SpecIncludeMacro == InitPreprocess /\ [][NextIncludeMacro]_vars
SpecTrail == InitPreprocess /\ [][NextTrail]_vars
SpecCall == InitCall /\ [][NextCall]_vars
SpecCommon == InitCommonType /\ [][NextCommon]_vars
SpecFrame == InitFrame /\ [][NextFrame]_vars

====
